---- MODULE Spec2Model ----
(***************************************************************************)
(* A model of the suono FLAC decoder: the bit reader (bits.rs), the        *)
(* CRC-tapped byte reader and Rice decoder (decode.rs), the frame and      *)
(* subframe decoder (frame.rs) and the stream driver (stream.rs).          *)
(*                                                                         *)
(* A u64 is a sequence of 64 bits, most significant bit first, so that     *)
(* shifts, masks and truncating casts are computed at the width the code   *)
(* uses.  Bytes, u8/u16 fields and i32 samples are integers.               *)
(***************************************************************************)
EXTENDS Integers, Sequences, FiniteSets, TLC

VARIABLES
    reader,       \* BitReader + DecodingReadProxy + the underlying byte source
    out,          \* bit reader runs: the values returned so far, each in its width, concatenated
    last,         \* bit reader runs: the last read_value call, [n, v, e]
    stream_info,  \* Stream.stream_info
    blocks,       \* decode_frames: the per-channel sample buffers
    header,       \* Frame::from_reader: the FrameHeader of the frame being decoded
    chan,         \* Frame::from_reader: number of subframes of the frame decoded so far
    pc,           \* position of the running operation
    result,       \* what the running operation returned: "Running", "Ok", an ErrorCode or "Panic"
    sunk,         \* the frames the sink has been invoked with, in order
    hist,         \* observations: where the frame began, what the last subframe decoded
    overflow_checks  \* the build: whether integer overflow panics (debug) or wraps (release)

vars == <<reader, out, last, stream_info, blocks, header, chan, pc, result, sunk, hist,
          overflow_checks>>

----------------------------------------------------------------------------
(* Bounds of the checked instances *)

\* number of bytes of every bit-reader source
SrcLen == 10
\* number of generated bit-reader sources besides the test vector of bits.rs
NumSeeds == 2
\* largest block size of the generated frames
MaxBlock == 3

----------------------------------------------------------------------------
(* 64-bit words as bit sequences, most significant bit first *)

Zeros(k) ==
    [i \in 1..k |-> 0]

Pow2(k) ==
    2 ^ k

\* the value of the 8 bits of b that follow position o
Byte8(b, o) ==
    ((128 * b[o + 1] + 64 * b[o + 2]) + (32 * b[o + 3] + 16 * b[o + 4]))
        + ((8 * b[o + 5] + 4 * b[o + 6]) + (2 * b[o + 7] + b[o + 8]))

\* the value of a bit sequence as a natural number (at most 31 bits)
BitsToNat(b) ==
    CHOOSE value \in {
        Byte8(p, 24) + 256 * Byte8(p, 16) + 65536 * Byte8(p, 8) + 16777216 * Byte8(p, 0) :
            p \in {Zeros(32 - Len(x)) \o x : x \in {b}}} : TRUE

\* the k-bit big-endian representation of a natural number
NatToBits(x, k) ==
    [i \in 1..k |-> (x \div Pow2(k - i)) % 2]

\* x << k on u64, 0 <= k < 64
Shl64(x, k) ==
    SubSeq(x, k + 1, 64) \o Zeros(k)

\* x >> k on u64 (logical), 0 <= k < 64
Shr64(x, k) ==
    Zeros(k) \o SubSeq(x, 1, 64 - k)

\* x >> k on i64 (arithmetic), 0 <= k < 64
Sar64(x, k) ==
    [i \in 1..k |-> x[1]] \o SubSeq(x, 1, 64 - k)

And64(x, y) ==
    [i \in 1..64 |-> x[i] * y[i]]

Or64(x, y) ==
    [i \in 1..64 |-> IF x[i] = 1 \/ y[i] = 1 THEN 1 ELSE 0]

\* a mask that keeps every bit
FullMask64(k) ==
    [i \in 1..64 |-> 1]

\* (1 << k) - 1 on u64, 0 <= k < 64
LowMask64(k) ==
    [i \in 1..64 |-> IF i > 64 - k THEN 1 ELSE 0]

\* the low k bits of a u64, as a k-bit sequence
Low(x, k) ==
    SubSeq(x, 64 - k + 1, 64)

\* u64::checked_shl(k).unwrap_or(0)
checked_shl_or_0(x, k) ==
    IF k >= 64 THEN Zeros(64) ELSE Shl64(x, k)

\* u64::from_be_bytes: bit i of the word is a bit of byte (i - 1) \div 8
from_be_bytes(array) ==
    [i \in 1..(8 * Len(array)) |->
        (array[((i - 1) \div 8) + 1] \div Pow2(7 - ((i - 1) % 8))) % 2]

\* the bits of a byte sequence in source order
SrcBits(bytes) ==
    from_be_bytes(bytes)

----------------------------------------------------------------------------
(* CRC hashers (crc.rs): CRC-8 poly 0x07 and CRC-16/BUYPASS poly 0x8005,    *)
(* init 0, no reflection, no final xor                                     *)

\* a ^ b on 4-bit values, tabulated
Xor4 ==
    [a \in 0..15 |-> [b \in 0..15 |->
        8 * (((a \div 8) + (b \div 8)) % 2) + 4 * (((a \div 4) + (b \div 4)) % 2)
            + 2 * (((a \div 2) + (b \div 2)) % 2) + ((a + b) % 2)]]

\* a ^ b on u8
Xor8(a, b) ==
    Xor4[a \div 16][b \div 16] * 16 + Xor4[a % 16][b % 16]

\* a ^ b on u16
Xor16(a, b) ==
    Xor8(a \div 256, b \div 256) * 256 + Xor8(a % 256, b % 256)

\* k shift-and-reduce steps of a CRC register of the given width and polynomial
RECURSIVE CrcShift(_, _, _, _)
CrcShift(c, poly, width, k) ==
    IF k = 0 THEN c
    ELSE CHOOSE value \in {IF prev \div Pow2(width - 1) = 1
               THEN Xor16((prev * 2) % Pow2(width), poly)
               ELSE (prev * 2) % Pow2(width) :
                   prev \in {CrcShift(c, poly, width, k - 1)}} : TRUE

\* the byte-wise lookup tables of the two polynomials
Crc8Table ==
    [b \in 0..255 |-> CrcShift(b, 7, 8, 8)]

Crc16Table ==
    [b \in 0..255 |-> CrcShift(b * 256, 32773, 16, 8)]

\* one byte folded into a CRC-8 state
Crc8Byte(c, byte) ==
    Crc8Table[Xor8(c, byte)]

\* one byte folded into a CRC-16 state: (c << 8) ^ table[(c >> 8) ^ byte]
Crc16Byte(c, byte) ==
    CHOOSE value \in {Xor8(c % 256, t \div 256) * 256 + (t % 256) :
              t \in {Crc16Table[Xor8(c \div 256, byte)]}} : TRUE

\* HasherCrc8::hash: the state c after the bytes of buf, folded in order: the
\* first half of buf, then the second half from the state m reached
RECURSIVE HasherCrc8_hash(_, _)
HasherCrc8_hash(c, buf) ==
    IF buf = <<>> THEN c
    ELSE IF Len(buf) = 1 THEN Crc8Byte(c, buf[1])
    ELSE CHOOSE value \in {HasherCrc8_hash(m, SubSeq(buf, (Len(buf) \div 2) + 1, Len(buf))) :
                   m \in {HasherCrc8_hash(c, SubSeq(buf, 1, Len(buf) \div 2))}} : TRUE

\* HasherCrc16Buypass::hash, likewise
RECURSIVE HasherCrc16_hash(_, _)
HasherCrc16_hash(c, buf) ==
    IF buf = <<>> THEN c
    ELSE IF Len(buf) = 1 THEN Crc16Byte(c, buf[1])
    ELSE CHOOSE value \in {HasherCrc16_hash(m, SubSeq(buf, (Len(buf) \div 2) + 1, Len(buf))) :
                   m \in {HasherCrc16_hash(c, SubSeq(buf, 1, Len(buf) \div 2))}} : TRUE

----------------------------------------------------------------------------
(* DecodingReadProxy (decode.rs) over a byte source                        *)

\* DecodingReadProxy::new and BitReader::new over the bytes of a source
NewReader(bytes) ==
    [source |-> bytes, pos |-> 0,
     queue |-> Zeros(64), queue_count |-> 0,
     crc8 |-> 0, crc16 |-> 0,
     computing_crc8 |-> FALSE, computing_crc16 |-> FALSE,
     fold8 |-> <<>>, fold16 |-> <<>>]

\* Read::read_exact of the proxy for a buffer of n zeroed bytes: the
\* underlying read_exact fills the buffer, then the buffer is hashed into
\* every open accumulator whatever the underlying result was.  A short
\* source delivers what is left and leaves the rest of the buffer untouched.
read_exact(r, n) ==
    LET avail == Len(r.source) - r.pos
        got   == IF n <= avail THEN n ELSE avail
        buf   == SubSeq(r.source, r.pos + 1, r.pos + got) \o Zeros(n - got)
    IN [e   |-> IF n <= avail THEN "Ok" ELSE "Io",
        buf |-> buf,
        r   |-> [r EXCEPT !.pos = r.pos + got,
                          !.crc8 = IF r.computing_crc8
                                     THEN HasherCrc8_hash(r.crc8, buf) ELSE r.crc8,
                          !.fold8 = IF r.computing_crc8
                                     THEN r.fold8 \o buf ELSE r.fold8,
                          !.crc16 = IF r.computing_crc16
                                     THEN HasherCrc16_hash(r.crc16, buf) ELSE r.crc16,
                          !.fold16 = IF r.computing_crc16
                                     THEN r.fold16 \o buf ELSE r.fold16]]

compute_crc8_begin(r) ==
    [r EXCEPT !.computing_crc8 = TRUE, !.crc8 = 0, !.fold8 = <<>>]

\* compute_crc8_end that leaves the CRC-8 region open
compute_crc8_end_open(r) ==
    [r |-> r, v |-> r.crc8]

\* [r |-> the reader, v |-> the value returned]
compute_crc8_end(r) ==
    [r |-> [r EXCEPT !.computing_crc8 = FALSE], v |-> r.crc8]

compute_crc16_begin(r) ==
    [r EXCEPT !.computing_crc16 = TRUE, !.crc16 = 0, !.fold16 = <<>>]

\* compute_crc16_end that leaves the CRC-16 region open
compute_crc16_end_open(r) ==
    [r |-> r, v |-> r.crc16]

\* [r |-> the reader, v |-> the value returned]
compute_crc16_end(r) ==
    [r |-> [r EXCEPT !.computing_crc16 = FALSE], v |-> r.crc16]

----------------------------------------------------------------------------
(* BitReader (bits.rs)                                                     *)

\* remaining_bits without the final & 7: a whole byte stays queued when the
\* read ends on a byte boundary
remaining_bits_unmasked(n_bits) ==
    8 - (n_bits % 8)

\* the part of read_value that says how many bits of the last fetched byte stay queued
remaining_bits(n_bits) ==
    (8 - (n_bits % 8)) % 8

\* BitReader::read_value: [e, v, r] with v the u64 returned
read_value(r, n) ==
    IF n > 64 THEN [e |-> "PanicAssertWidth", v |-> Zeros(64), r |-> r]
    ELSE
    LET n_bits == n - r.queue_count IN
    IF n_bits > 0 THEN
        LET n_bytes == ((n_bits - 1) \div 8) + 1 IN
        CHOOSE value \in {LET array     == Zeros(8 - n_bytes) \o rd.buf
                  loaded    == from_be_bytes(array)
                  dequeued  == checked_shl_or_0(r.queue, n_bits)
                  remaining == remaining_bits(n_bits)
              IN IF rd.e # "Ok"
                 THEN [e |-> rd.e, v |-> Zeros(64), r |-> rd.r]
                 ELSE [e |-> "Ok",
                       v |-> Or64(dequeued, Shr64(loaded, remaining)),
                       r |-> [rd.r EXCEPT !.queue = And64(loaded, LowMask64(remaining)),
                                          !.queue_count = remaining]] :
                 rd \in {read_exact(r, n_bytes)}} : TRUE
    ELSE
        LET remaining == -n_bits
            queue     == r.queue
        IN [e |-> "Ok",
            v |-> Shr64(queue, remaining),
            r |-> [r EXCEPT !.queue = And64(queue, LowMask64(remaining)),
                            !.queue_count = remaining]]

\* the `? as u8`, `? as u16`, `? as u32` and `? != 0` applied to the result
\* rv of read_value
value_as_bool(rv) ==
    CHOOSE value \in {[e |-> x.e, r |-> x.r, v |-> (x.v[64] = 1)] : x \in {rv}} : TRUE

value_as_u8(rv) ==
    CHOOSE value \in {[e |-> x.e, r |-> x.r, v |-> BitsToNat(Low(x.v, 8))] : x \in {rv}} : TRUE

value_as_u16(rv) ==
    CHOOSE value \in {[e |-> x.e, r |-> x.r, v |-> BitsToNat(Low(x.v, 16))] : x \in {rv}} : TRUE

value_as_u32(rv) ==
    CHOOSE value \in {[e |-> x.e, r |-> x.r,
                       v |-> IF x.e = "Ok" THEN BitsToNat(Low(x.v, 32)) ELSE 0] :
                          x \in {rv}} : TRUE

\* BitRead::read_bool
read_bool(r) ==
    value_as_bool(read_value(r, 1))

\* BitRead::read_u8_bits
read_u8_bits(r, n) ==
    IF n > 8 THEN [e |-> "PanicAssertWidth", r |-> r, v |-> 0]
    ELSE value_as_u8(read_value(r, n))

\* BitRead::read_u8
read_u8(r) ==
    value_as_u8(read_value(r, 8))

\* BitRead::read_u16_bits
read_u16_bits(r, n) ==
    IF n > 16 THEN [e |-> "PanicAssertWidth", r |-> r, v |-> 0]
    ELSE value_as_u16(read_value(r, n))

\* BitRead::read_u16
read_u16(r) ==
    value_as_u16(read_value(r, 16))

\* BitRead::read_u64_bits: v is the u64
read_u64_bits(r, n) ==
    read_value(r, n)

\* BitRead::align_to_byte: discards the queue
align_to_byte(r) ==
    [r EXCEPT !.queue = Zeros(64), !.queue_count = 0]

\* BitRead::read_unary: the number of zero bits before the terminating one
\* bit, which is consumed too
RECURSIVE read_unary_from(_, _)
read_unary_from(r, count) ==
    CHOOSE value \in {IF b.e # "Ok" THEN [e |-> b.e, r |-> b.r, v |-> count]
          ELSE IF b.v[64] = 1 THEN [e |-> "Ok", r |-> b.r, v |-> count]
          ELSE read_unary_from(b.r, count + 1) :
              b \in {read_value(r, 1)}} : TRUE

read_unary(r) ==
    read_unary_from(r, 0)

----------------------------------------------------------------------------
(* Bitvec (bitvec.rs) and BitRead::read_bitvec (bits.rs)                   *)

\* BitvecBlock::Bytes(vec) and BitvecBlock::Bits(w, q)
Bytes(vec) ==
    [kind |-> "Bytes", bytes |-> vec, w |-> 0, q |-> 0]

Bits(w, q) ==
    [kind |-> "Bits", bytes |-> <<>>, w |-> w, q |-> q]

\* the operator | on two u8
or_u8(a, b) ==
    BitsToNat([i \in 1..8 |-> IF NatToBits(a, 8)[i] = 1 \/ NatToBits(b, 8)[i] = 1
                              THEN 1 ELSE 0])

\* the blocks without the last one (Vec::pop)
Popped(bl) ==
    SubSeq(bl, 1, Len(bl) - 1)

\* a push that always starts a new Bytes block
push_byte_apart(bl, v) ==
    Append(bl, Bytes(<<v>>))

\* `match self.blocks.last_mut()` pushing the byte v onto a last Bytes block
\* or onto a new one
push_byte(bl, v) ==
    IF Len(bl) > 0 /\ bl[Len(bl)].kind = "Bytes"
    THEN [bl EXCEPT ![Len(bl)].bytes = Append(bl[Len(bl)].bytes, v)]
    ELSE Append(bl, Bytes(<<v>>))

\* Bitvec::write_bits on the blocks bl
write_bits(bl, u, n) ==
    IF n = 0 THEN bl
    ELSE IF n = 8 /\ Len(bl) > 0 /\ bl[Len(bl)].kind = "Bytes"
    THEN [bl EXCEPT ![Len(bl)].bytes = Append(bl[Len(bl)].bytes, u)]
    ELSE IF n = 8 /\ Len(bl) = 0
    THEN <<Bytes(<<u>>)>>
    ELSE IF Len(bl) > 0 /\ bl[Len(bl)].kind = "Bits"
    THEN LET w == bl[Len(bl)].w
             q == bl[Len(bl)].q
         IN IF n + q < 8
            THEN [bl EXCEPT ![Len(bl)] =
                     Bits(or_u8((w * Pow2(n)) % 256, u % Pow2(n)), n + q)]
            ELSE IF n + q = 8
            THEN push_byte(Popped(bl), or_u8((w * Pow2(n)) % 256, u % Pow2(n)))
            ELSE LET fill     == (8 - q) % 8
                     overflow == (n + q) % 8
                     msb      == or_u8((w * Pow2(fill)) % 256, u \div Pow2(overflow))
                     lsb      == u % Pow2(overflow)
                 IN Append(push_byte(Popped(bl), msb), Bits(lsb, overflow))
    ELSE Append(bl, Bits(u, n))

\* Bitvec::write_bytes from the reader's source: the block is resized before
\* the read, so a failed read leaves the zeroed room in a last Bytes block
write_bytes(bl, r, n) ==
    IF n = 0 THEN [e |-> "Ok", r |-> r, bl |-> bl]
    ELSE CHOOSE value \in {
             IF Len(bl) > 0 /\ bl[Len(bl)].kind = "Bytes"
             THEN [e |-> rd.e, r |-> rd.r,
                   bl |-> [bl EXCEPT ![Len(bl)].bytes = bl[Len(bl)].bytes \o rd.buf]]
             ELSE [e |-> rd.e, r |-> rd.r,
                   bl |-> IF rd.e = "Ok" THEN Append(bl, Bytes(rd.buf)) ELSE bl] :
                 rd \in {read_exact(r, n)}} : TRUE

\* BitRead::read_bitvec of n bits into the blocks bl
read_bitvec(r, bl, n) ==
    LET queue  == r.queue
        n_bits == n - r.queue_count
    IN
    IF n_bits > 0 THEN
        LET n_bytes   == ((n_bits - 1) \div 8) + 1
            remaining == (8 - (n_bits % 8)) % 8
            tail_len  == 8 - remaining
        IN
        CHOOSE value \in {
            IF wb.e # "Ok" THEN [e |-> wb.e, r |-> wb.r, bl |-> wb.bl]
            ELSE
            CHOOSE value \in {
                IF rd.e # "Ok" THEN [e |-> rd.e, r |-> rd.r, bl |-> wb.bl]
                ELSE [e |-> "Ok",
                      r |-> [rd.r EXCEPT
                                !.queue = Zeros(56) \o
                                    NatToBits(rd.buf[1] % Pow2(remaining), 8),
                                !.queue_count = remaining],
                      bl |-> write_bits(wb.bl, rd.buf[1] \div Pow2(remaining),
                                        tail_len)] :
                    rd \in {read_exact(wb.r, 1)}} : TRUE :
                wb \in {write_bytes(write_bits(bl, BitsToNat(Low(queue, 8)),
                                               r.queue_count),
                                    r, n_bytes - 1)}} : TRUE
    ELSE
        LET remaining == -n_bits IN
        [e |-> "Ok",
         r |-> [r EXCEPT !.queue = And64(queue, LowMask64(remaining)),
                         !.queue_count = remaining],
         bl |-> write_bits(bl, BitsToNat(Low(Shr64(queue, remaining), 8)), n)]

----------------------------------------------------------------------------
(* Integer conversions (frame.rs, decode.rs)                               *)

MinI32 ==
    -2147483647 - 1

\* a usize that wrapped below zero in a build without overflow checks: only
\* its being larger than every width and length matters
UsizeWrapped ==
    2147483647

IsPanic(e) ==
    e \in {"PanicAssertWidth", "PanicAssertEscape", "PanicOverflow", "PanicSliceIndex"}

\* `as i32` of a 64-bit word: the low 32 bits, two's complement
as_i32(x) ==
    CHOOSE value \in {(IF w[33] = 1 THEN MinI32 ELSE 0) + BitsToNat(SubSeq(w, 34, 64)) :
                         w \in {x}} : TRUE

\* a sign_extend whose right shift is the logical one
sign_extend_logical(x, n, oc) ==
    LET m == 64 - n IN
    IF m >= 64
    THEN [e |-> IF oc THEN "PanicOverflow" ELSE "Ok", v |-> x]
    ELSE [e |-> "Ok", v |-> Shr64(Shl64(x, m), m)]

\* sign_extend(x, n) as i32, for n <= 64.  With n = 0 the shift by 64
\* overflows: a panic with overflow checks, a shift by 0 without.
sign_extend(x, n, oc) ==
    LET m == 64 - n IN
    IF m >= 64
    THEN [e |-> IF oc THEN "PanicOverflow" ELSE "Ok", v |-> x]
    ELSE [e |-> "Ok", v |-> Sar64(Shl64(x, m), m)]

\* sign_extend(rv?, bps) as i32 for the result rv of read_u64_bits(bps)
value_as_sample(rv, bps, oc) ==
    CHOOSE value \in {
        IF x.e # "Ok" THEN [e |-> x.e, r |-> x.r, v |-> 0]
        ELSE CHOOSE value \in {[e |-> sx.e, r |-> x.r, v |-> as_i32(sx.v)] :
                                  sx \in {sign_extend(x.v, bps, oc)}} : TRUE :
            x \in {rv}} : TRUE

\* sign_extend(reader.read_u64_bits(bps)?, bps) as i32
read_sample(r, bps, oc) ==
    value_as_sample(read_u64_bits(r, bps), bps, oc)

\* the loop `for sample in slice { *sample = sign_extend(...) }` over k
\* zeroed elements that follow the elements vs already written: vs holds
\* all of them, read up to the first failure
RECURSIVE read_samples(_, _, _, _, _)
read_samples(r, bps, k, oc, vs) ==
    IF k = 0 THEN [e |-> "Ok", r |-> r, vs |-> vs]
    ELSE CHOOSE value \in {IF s.e # "Ok" THEN [e |-> s.e, r |-> s.r, vs |-> vs \o Zeros(k)]
               ELSE read_samples(s.r, bps, k - 1, oc, vs \o <<s.v>>) :
                   s \in {read_sample(r, bps, oc)}} : TRUE

\* i32 addition: [v |-> the wrapped sum, o |-> whether it overflowed]
add_i32(a, b) ==
    LET lo  == (a % 65536) + (b % 65536)
        hi  == (a \div 65536) + (b \div 65536) + (lo \div 65536)
        hiw == ((hi + 32768) % 65536) - 32768
    IN [v |-> hiw * 65536 + (lo % 65536), o |-> hi # hiw]

\* i32 subtraction: [v |-> the wrapped difference, o |-> whether it overflowed]
sub_i32(a, b) ==
    LET lo  == (a % 65536) - (b % 65536)
        hi  == (a \div 65536) - (b \div 65536) + (lo \div 65536)
        hiw == ((hi + 32768) % 65536) - 32768
    IN [v |-> hiw * 65536 + (lo % 65536), o |-> hi # hiw]

\* i32 division by 2, truncating toward zero
div2_i32(x) ==
    IF x >= 0 THEN x \div 2 ELSE (x + 1) \div 2

----------------------------------------------------------------------------
(* Rice decoding (decode.rs)                                               *)

\* BitRead::read_u32_bits
read_u32_bits(r, n) ==
    IF n > 32 THEN [e |-> "PanicAssertWidth", r |-> r, v |-> 0]
    ELSE value_as_u32(read_value(r, n))

\* ((msb << parameter) | lsb) as i32 followed by (v >> 1) ^ -(v & 1), on
\* 32-bit words (parameter < 32): the bits of msb shifted above bit 31 are
\* lost, v >> 1 is the arithmetic shift of an i32, and -(v & 1) is 0 or all
\* ones
rice_value(msb, lsb, parameter) ==
    LET m  == Zeros(2) \o NatToBits(msb % Pow2(30), 30)
        sh == SubSeq(m, parameter + 1, 32) \o Zeros(parameter)
        l  == <<0>> \o NatToBits(lsb, 31)
        v  == [i \in 1..32 |-> IF sh[i] = 1 \/ l[i] = 1 THEN 1 ELSE 0]
        s  == <<v[1]>> \o SubSeq(v, 1, 31)
    IN as_i32(Zeros(32) \o [i \in 1..32 |-> IF v[32] = 1 THEN 1 - s[i] ELSE s[i]])

\* Decode::decode_rice
decode_rice(r, parameter) ==
    CHOOSE value \in {IF msb.e # "Ok" THEN [e |-> msb.e, r |-> msb.r, v |-> 0]
          ELSE CHOOSE value \in {IF lsb.e # "Ok" THEN [e |-> lsb.e, r |-> lsb.r, v |-> 0]
                     ELSE [e |-> "Ok", r |-> lsb.r,
                           v |-> rice_value(msb.v, lsb.v, parameter)] :
                         lsb \in {read_u32_bits(msb.r, parameter)}} : TRUE :
              msb \in {read_unary(r)}} : TRUE

\* the loop `for sample in slice { *sample = reader.decode_rice(parameter)? }`
\* over k zeroed elements that follow the elements vs already written
RECURSIVE decode_rice_samples(_, _, _, _)
decode_rice_samples(r, parameter, k, vs) ==
    IF k = 0 THEN [e |-> "Ok", r |-> r, vs |-> vs]
    ELSE CHOOSE value \in {IF s.e # "Ok" THEN [e |-> s.e, r |-> s.r, vs |-> vs \o Zeros(k)]
               ELSE decode_rice_samples(s.r, parameter, k - 1, vs \o <<s.v>>) :
                   s \in {decode_rice(r, parameter)}} : TRUE

----------------------------------------------------------------------------
(* Subframes (frame.rs)                                                    *)

\* PredictionMethod::parse
PredictionMethod_parse(n) ==
    IF n = 0 THEN [kind |-> "Constant", order |-> 0]
    ELSE IF n = 1 THEN [kind |-> "Verbatim", order |-> 0]
    ELSE IF n >= 8 /\ n <= 15 THEN [kind |-> "Fixed", order |-> n % 8]
    ELSE IF n >= 32 /\ n <= 63 THEN [kind |-> "Fir", order |-> (n % 32) + 1]
    ELSE [kind |-> "None", order |-> 0]

\* the loop counting wasted bits: one more per bit read, until a one bit
RECURSIVE wasted_bits_loop(_, _)
wasted_bits_loop(r, wasted) ==
    CHOOSE value \in {IF b.e # "Ok" THEN [e |-> b.e, r |-> b.r, v |-> wasted + 1]
          ELSE IF b.v THEN [e |-> "Ok", r |-> b.r, v |-> wasted + 1]
          ELSE wasted_bits_loop(b.r, wasted + 1) :
              b \in {read_bool(r)}} : TRUE

\* SubframeHeader::from_reader
SubframeHeader_from_reader(r) ==
    LET fail(e, rr) == [e |-> e, r |-> rr, method |-> [kind |-> "None", order |-> 0],
                        wasted_bits_per_sample |-> 0]
    IN
    CHOOSE value \in {
        IF zero.e # "Ok" THEN fail(zero.e, zero.r)
        ELSE IF zero.v THEN fail("SubframeOutOfSync", zero.r)
        ELSE
        CHOOSE value \in {
            IF type.e # "Ok" THEN fail(type.e, type.r)
            ELSE IF PredictionMethod_parse(type.v).kind = "None"
            THEN fail("SubframeReservedType", type.r)
            ELSE
            CHOOSE value \in {
                LET method == PredictionMethod_parse(type.v) IN
                IF wasted_flag.e # "Ok" THEN fail(wasted_flag.e, wasted_flag.r)
                ELSE IF ~wasted_flag.v
                THEN [e |-> "Ok", r |-> wasted_flag.r, method |-> method,
                      wasted_bits_per_sample |-> 0]
                ELSE
                CHOOSE value \in {[e |-> w.e, r |-> w.r, method |-> method,
                       wasted_bits_per_sample |-> w.v] :
                          w \in {wasted_bits_loop(wasted_flag.r, 0)}} : TRUE :
                    wasted_flag \in {read_bool(type.r)}} : TRUE :
                type \in {read_u8_bits(zero.r, 6)}} : TRUE :
            zero \in {read_bool(r)}} : TRUE

\* Subframe::from_reader: the subframe's sample size is the frame's less the
\* wasted bits; the subtraction underflows when more bits are wasted than
\* the sample has
Subframe_from_reader(r, sample_size, block_size, oc) ==
    CHOOSE value \in {LET under == h.wasted_bits_per_sample > sample_size IN
          [e |-> IF h.e = "Ok" /\ under /\ oc THEN "PanicOverflow" ELSE h.e,
           r |-> h.r,
           method |-> h.method,
           wasted |-> h.wasted_bits_per_sample,
           sample_size |-> IF under THEN UsizeWrapped
                           ELSE sample_size - h.wasted_bits_per_sample,
           block_size |-> block_size] :
              h \in {SubframeHeader_from_reader(r)}} : TRUE

\* Subframe::decode_constant
decode_constant(sf, r, vec, oc) ==
    CHOOSE value \in {IF s.e # "Ok" THEN [e |-> s.e, r |-> s.r, vec |-> vec]
          ELSE [e |-> "Ok", r |-> s.r, vec |-> vec \o [i \in 1..sf.block_size |-> s.v]] :
              s \in {read_sample(r, sf.sample_size, oc)}} : TRUE

\* Subframe::decode_verbatim
decode_verbatim(sf, r, vec, oc) ==
    CHOOSE value \in {[e |-> s.e, r |-> s.r, vec |-> vec \o s.vs] :
              s \in {read_samples(r, sf.sample_size, sf.block_size, oc, <<>>)}} : TRUE

\* the closure determine_num_samples of decode_residuals; u is whether the
\* subtraction underflows
determine_num_samples(block_size, predictor_order, partition_order, first) ==
    IF partition_order = 0
    THEN [v |-> block_size - predictor_order, u |-> predictor_order > block_size]
    ELSE IF ~first
    THEN [v |-> block_size \div Pow2(partition_order), u |-> FALSE]
    ELSE [v |-> (block_size \div Pow2(partition_order)) - predictor_order,
          u |-> predictor_order > block_size \div Pow2(partition_order)]

\* the partition loop of decode_residuals, from partition i_partition on
RECURSIVE residual_partitions(_, _, _, _, _, _, _, _)
residual_partitions(sf, r, vec, predictor_order, depth, partition_order, i_partition, oc) ==
    IF i_partition >= Pow2(partition_order) THEN [e |-> "Ok", r |-> r, vec |-> vec]
    ELSE
    LET num    == determine_num_samples(sf.block_size, predictor_order,
                                        partition_order, i_partition = 0)
        escape == Pow2(depth) - 1
    IN
    IF num.u /\ oc THEN [e |-> "PanicOverflow", r |-> r, vec |-> vec]
    ELSE
    CHOOSE value \in {
        IF parameter.e # "Ok" THEN [e |-> parameter.e, r |-> parameter.r, vec |-> vec]
        ELSE IF parameter.v = escape
        THEN [e |-> "PanicAssertEscape", r |-> parameter.r, vec |-> vec]
        ELSE IF num.u
        \* wrapped length: resize shrinks the vector below offset, the slice panics
        THEN [e |-> "PanicSliceIndex", r |-> parameter.r, vec |-> vec]
        ELSE
        CHOOSE value \in {IF s.e # "Ok" THEN [e |-> s.e, r |-> s.r, vec |-> vec \o s.vs]
              ELSE residual_partitions(sf, s.r, vec \o s.vs, predictor_order, depth,
                                       partition_order, i_partition + 1, oc) :
                  s \in {decode_rice_samples(parameter.r, parameter.v, num.v, <<>>)}} : TRUE :
            parameter \in {read_u8_bits(r, depth)}} : TRUE

\* Subframe::decode_residuals
decode_residuals(sf, r, vec, predictor_order, oc) ==
    CHOOSE value \in {
        IF coding_method.e # "Ok"
        THEN [e |-> coding_method.e, r |-> coding_method.r, vec |-> vec]
        ELSE IF coding_method.v \notin {0, 1}
        THEN [e |-> "ResidualCodingMethodUnknown", r |-> coding_method.r, vec |-> vec]
        ELSE
        LET depth == IF coding_method.v = 0 THEN 4 ELSE 5 IN
        CHOOSE value \in {IF partition_order.e # "Ok"
              THEN [e |-> partition_order.e, r |-> partition_order.r, vec |-> vec]
              ELSE residual_partitions(sf, partition_order.r, vec, predictor_order, depth,
                                       partition_order.v, 0, oc) :
                  partition_order \in {read_u8_bits(coding_method.r, 4)}} : TRUE :
            coding_method \in {read_u8_bits(r, 2)}} : TRUE

\* the prediction sum of restore_signals for sample i (0-based)
RECURSIVE lpc_sum(_, _, _, _)
lpc_sum(coefficients, vec, i, j) ==
    IF j >= Len(coefficients) THEN 0
    ELSE coefficients[j + 1] * vec[(i - j - 1) + 1]
           + lpc_sum(coefficients, vec, i, j + 1)

\* the loop of restore_signals from sample i (0-based) on
RECURSIVE restore_loop(_, _, _, _, _, _)
restore_loop(coefficients, shift, vec, i, block_size, oc) ==
    IF i >= block_size THEN [e |-> "Ok", vec |-> vec]
    ELSE
    LET sample == lpc_sum(coefficients, vec, i, 0)
        sum    == add_i32(vec[i + 1], sample \div Pow2(shift))
    IN
    IF sum.o /\ oc THEN [e |-> "PanicOverflow", vec |-> vec]
    ELSE restore_loop(coefficients, shift, [vec EXCEPT ![i + 1] = sum.v],
                      i + 1, block_size, oc)

\* Subframe::restore_signals
restore_signals(sf, coefficients, shift, order, vec, oc) ==
    IF Len(coefficients) # order \/ Len(vec) # sf.block_size \/ shift < 0
    THEN [e |-> "LPCSignalRestoreFailure", vec |-> vec]
    ELSE restore_loop(coefficients, shift, vec, order, sf.block_size, oc)

\* the coefficients of every order written in the opposite order
obtain_coefficients_reversed(order) ==
    IF order = 2 THEN [some |-> TRUE, v |-> <<-1, 2>>]
    ELSE IF order = 3 THEN [some |-> TRUE, v |-> <<1, -3, 3>>]
    ELSE IF order = 4 THEN [some |-> TRUE, v |-> <<-1, 4, -6, 4>>]
    ELSE [some |-> order < 2, v |-> [i \in 1..order |-> 1]]

\* the closure obtain_coefficients of decode_fixed
obtain_coefficients(order) ==
    IF order = 0 THEN [some |-> TRUE, v |-> <<>>]
    ELSE IF order = 1 THEN [some |-> TRUE, v |-> <<1>>]
    ELSE IF order = 2 THEN [some |-> TRUE, v |-> <<2, -1>>]
    ELSE IF order = 3 THEN [some |-> TRUE, v |-> <<3, -3, 1>>]
    ELSE IF order = 4 THEN [some |-> TRUE, v |-> <<4, -6, 4, -1>>]
    ELSE [some |-> FALSE, v |-> <<>>]

\* Subframe::decode_fixed
decode_fixed(sf, r, vec, order, oc) ==
    CHOOSE value \in {
        IF warm.e # "Ok" THEN [e |-> warm.e, r |-> warm.r, vec |-> vec \o warm.vs]
        ELSE
        CHOOSE value \in {
            IF res.e # "Ok" THEN res
            ELSE IF ~obtain_coefficients(order).some
            THEN [e |-> "FixedLPCCoefficientUnknown", r |-> res.r, vec |-> res.vec]
            ELSE
            CHOOSE value \in {[e |-> rs.e, r |-> res.r, vec |-> rs.vec] :
                      rs \in {restore_signals(sf, obtain_coefficients(order).v, 0, order,
                                              res.vec, oc)}} : TRUE :
                res \in {decode_residuals(sf, warm.r, vec \o warm.vs, order, oc)}} : TRUE :
            warm \in {read_samples(r, sf.sample_size, order, oc, <<>>)}} : TRUE

\* Subframe::decode_fir
decode_fir(sf, r, vec, order, oc) ==
    CHOOSE value \in {
        IF warm.e # "Ok" THEN [e |-> warm.e, r |-> warm.r, vec |-> vec \o warm.vs]
        ELSE
        CHOOSE value \in {
            IF precision_bits.e # "Ok"
            THEN [e |-> precision_bits.e, r |-> precision_bits.r, vec |-> vec \o warm.vs]
            ELSE IF precision_bits.v = 15
            THEN [e |-> "QLPPrecisionInvalid", r |-> precision_bits.r, vec |-> vec \o warm.vs]
            ELSE
            LET precision == precision_bits.v + 1 IN
            CHOOSE value \in {
                IF shift.e # "Ok" THEN [e |-> shift.e, r |-> shift.r, vec |-> vec \o warm.vs]
                ELSE
                CHOOSE value \in {
                    IF coefficients.e # "Ok"
                    THEN [e |-> coefficients.e, r |-> coefficients.r, vec |-> vec \o warm.vs]
                    ELSE
                    CHOOSE value \in {
                        IF res.e # "Ok" THEN res
                        ELSE
                        CHOOSE value \in {[e |-> rs.e, r |-> res.r, vec |-> rs.vec] :
                                  rs \in {restore_signals(sf, coefficients.vs, shift.v, order,
                                                          res.vec, oc)}} : TRUE :
                            res \in {decode_residuals(sf, coefficients.r, vec \o warm.vs,
                                                      order, oc)}} : TRUE :
                        coefficients \in {read_samples(shift.r, precision, order, oc, <<>>)}} : TRUE :
                    shift \in {read_sample(precision_bits.r, 5, oc)}} : TRUE :
                precision_bits \in {read_u8_bits(warm.r, 4)}} : TRUE :
            warm \in {read_samples(r, sf.sample_size, order, oc, <<>>)}} : TRUE

\* Subframe::decode
Subframe_decode(sf, r, vec, oc) ==
    IF sf.method.kind = "Constant" THEN decode_constant(sf, r, vec, oc)
    ELSE IF sf.method.kind = "Verbatim" THEN decode_verbatim(sf, r, vec, oc)
    ELSE IF sf.method.kind = "Fixed" THEN decode_fixed(sf, r, vec, sf.method.order, oc)
    ELSE decode_fir(sf, r, vec, sf.method.order, oc)

\* Subframe::from_reader followed by Subframe::decode into vec, as every arm
\* of Frame::from_reader does for a channel
decode_subframe(r, sample_size, block_size, vec, oc) ==
    CHOOSE value \in {IF sf.e # "Ok" THEN [e |-> sf.e, r |-> sf.r, vec |-> vec, wasted |-> sf.wasted]
          ELSE CHOOSE value \in {[e |-> d.e, r |-> d.r, vec |-> d.vec, wasted |-> sf.wasted] :
                         d \in {Subframe_decode(sf, sf.r, vec, oc)}} : TRUE :
              sf \in {Subframe_from_reader(r, sample_size, block_size, oc)}} : TRUE

----------------------------------------------------------------------------
(* Frame header (frame.rs)                                                 *)

\* ChannelAssignment::parse
ChannelAssignment_parse(n) ==
    IF n <= 7 THEN [kind |-> "Independent", n |-> n + 1]
    ELSE IF n = 8 THEN [kind |-> "LeftSideStereo", n |-> 2]
    ELSE IF n = 9 THEN [kind |-> "SideRightStereo", n |-> 2]
    ELSE IF n = 10 THEN [kind |-> "MidSideStereo", n |-> 2]
    ELSE [kind |-> "None", n |-> 0]

\* the closure sample_size of FrameHeader::from_reader
sample_size_of(n, info) ==
    IF n = 0 THEN [some |-> TRUE, v |-> info.bits_per_sample]
    ELSE IF n = 1 THEN [some |-> TRUE, v |-> 8]
    ELSE IF n = 2 THEN [some |-> TRUE, v |-> 12]
    ELSE IF n = 4 THEN [some |-> TRUE, v |-> 16]
    ELSE IF n = 5 THEN [some |-> TRUE, v |-> 20]
    ELSE IF n = 6 THEN [some |-> TRUE, v |-> 24]
    ELSE [some |-> FALSE, v |-> 0]

\* the closure block_size of FrameHeader::from_reader
block_size_of(n, variable_block_size) ==
    IF n = 1 THEN [some |-> TRUE, v |-> 192]
    ELSE IF n >= 2 /\ n <= 5 THEN [some |-> TRUE, v |-> 576 * Pow2(n - 2)]
    ELSE IF n = 6 \/ n = 7 THEN variable_block_size
    ELSE IF n >= 8 /\ n <= 15 THEN [some |-> TRUE, v |-> 256 * Pow2(n - 8)]
    ELSE [some |-> FALSE, v |-> 0]

\* consecutive reads of bit fields of at most 8 bits each, up to the first
\* failure, after the fields vs already read
RECURSIVE read_fields(_, _, _)
read_fields(r, widths, vs) ==
    IF widths = <<>> THEN [e |-> "Ok", r |-> r, vs |-> vs]
    ELSE CHOOSE value \in {IF f.e # "Ok" THEN [e |-> f.e, r |-> f.r, vs |-> vs]
               ELSE read_fields(f.r, Tail(widths), vs \o <<f.v>>) :
                   f \in {read_u8_bits(r, Head(widths))}} : TRUE

\* a skip that reads one continuation byte at most
utf8_skip_once(r, v1) ==
    IF v1 < 192 THEN [e |-> "Ok", r |-> r]
    ELSE CHOOSE value \in {[e |-> c.e, r |-> c.r] : c \in {read_u8(r)}} : TRUE

\* the loop skipping the continuation bytes of the UTF-8 coded number
RECURSIVE utf8_skip(_, _)
utf8_skip(r, v1) ==
    IF v1 < 192 THEN [e |-> "Ok", r |-> r]
    ELSE CHOOSE value \in {IF c.e # "Ok" THEN [e |-> c.e, r |-> c.r]
               ELSE utf8_skip(c.r, (v1 * 2) % 256) :
                   c \in {read_u8(r)}} : TRUE

\* the variable block size field
read_variable_block_size(r, block_size_bits) ==
    IF block_size_bits = 6
    THEN CHOOSE value \in {[e |-> x.e, r |-> x.r, v |-> [some |-> TRUE, v |-> x.v + 1]] :
                   x \in {read_u8(r)}} : TRUE
    ELSE IF block_size_bits = 7
    THEN CHOOSE value \in {[e |-> x.e, r |-> x.r, v |-> [some |-> TRUE, v |-> x.v + 1]] :
                   x \in {read_u16(r)}} : TRUE
    ELSE [e |-> "Ok", r |-> r, v |-> [some |-> FALSE, v |-> 0]]

\* the variable sample rate field, which is read and dropped
read_variable_sample_rate(r, sample_rate_bits) ==
    IF sample_rate_bits = 12
    THEN CHOOSE value \in {[e |-> x.e, r |-> x.r] : x \in {read_u8(r)}} : TRUE
    ELSE IF sample_rate_bits = 13 \/ sample_rate_bits = 14
    THEN CHOOSE value \in {[e |-> x.e, r |-> x.r] : x \in {read_u16(r)}} : TRUE
    ELSE [e |-> "Ok", r |-> r]

\* the comparison of the header's CRC-8 with the declared one
crc8_check(actual_crc8, expected_crc8) ==
    IF actual_crc8 # expected_crc8 THEN "FrameHeaderCrcMismatch" ELSE "Ok"

\* a comparison that accepts every CRC-16
crc16_check_lenient(actual_crc16, expected_crc16) ==
    "Ok"

\* the comparison of the frame's CRC-16 with the declared one
crc16_check(actual_crc16, expected_crc16) ==
    IF actual_crc16 # expected_crc16 THEN "FrameCrcMismatch" ELSE "Ok"

\* how FrameHeader::from_reader maps a failed read of the sync code
sync_read_error(e) ==
    IF e = "Io" THEN "None" ELSE e

NoHeader ==
    [sample_size |-> 0, block_size |-> 0,
     channel_assignment |-> [kind |-> "None", n |-> 0]]

\* FrameHeader::from_reader: e is "Ok" with the header, "None" for Ok(None),
\* or the error
FrameHeader_from_reader(r, info) ==
    LET fail(e, rr) == [e |-> e, r |-> rr, header |-> NoHeader] IN
    CHOOSE value \in {
        IF sync_code.e # "Ok" THEN fail(sync_read_error(sync_code.e), sync_code.r)
        ELSE IF sync_code.v # 16382 THEN fail("FrameOutOfSync", sync_code.r)
        ELSE
        CHOOSE value \in {
            IF p.e # "Ok" THEN fail(p.e, p.r)
            ELSE
            LET block_size_bits  == p.vs[3]
                sample_rate_bits == p.vs[4]
                channel_bits     == p.vs[5]
                sample_size_bits == p.vs[6]
            IN
            CHOOSE value \in {
                IF v1.e # "Ok" THEN fail(v1.e, v1.r)
                ELSE
                CHOOSE value \in {
                    IF u.e # "Ok" THEN fail(u.e, u.r)
                    ELSE
                    CHOOSE value \in {
                        IF vbs.e # "Ok" THEN fail(vbs.e, vbs.r)
                        ELSE
                        CHOOSE value \in {
                            IF vsr.e # "Ok" THEN fail(vsr.e, vsr.r)
                            ELSE
                            LET closed == compute_crc8_end(vsr.r) IN
                            CHOOSE value \in {
                                IF expected_crc8.e # "Ok"
                                THEN fail(expected_crc8.e, expected_crc8.r)
                                ELSE IF crc8_check(closed.v, expected_crc8.v) # "Ok"
                                THEN fail(crc8_check(closed.v, expected_crc8.v),
                                          expected_crc8.r)
                                ELSE
                                LET ss == sample_size_of(sample_size_bits, info)
                                    bs == block_size_of(block_size_bits, vbs.v)
                                    ca == ChannelAssignment_parse(channel_bits)
                                IN
                                IF ~ss.some
                                THEN fail("FrameSampleSizeUnknown", expected_crc8.r)
                                ELSE IF ~bs.some
                                THEN fail("FrameBlockSizeUnknown", expected_crc8.r)
                                ELSE IF ca.kind = "None"
                                THEN fail("FrameChannelAssignmentUnknown", expected_crc8.r)
                                ELSE [e |-> "Ok", r |-> expected_crc8.r,
                                      header |-> [sample_size |-> ss.v, block_size |-> bs.v,
                                                  channel_assignment |-> ca]] :
                                    expected_crc8 \in {read_u8(closed.r)}} : TRUE :
                                vsr \in {read_variable_sample_rate(vbs.r, sample_rate_bits)}} : TRUE :
                            vbs \in {read_variable_block_size(u.r, block_size_bits)}} : TRUE :
                        u \in {utf8_skip(v1.r, v1.v)}} : TRUE :
                    v1 \in {read_u8(p.r)}} : TRUE :
                p \in {read_fields(sync_code.r, <<1, 1, 4, 4, 4, 3, 1>>, <<>>)}} : TRUE :
            sync_code \in {read_u16_bits(compute_crc8_begin(r), 14)}} : TRUE

----------------------------------------------------------------------------
(* Metadata (metadata.rs) and Stream::new (stream.rs)                      *)

\* BitRead::read_u32
read_u32(r) ==
    value_as_u32(read_value(r, 32))

\* BitRead::read_u128: v is the u128 as 128 bits
read_u128(r) ==
    CHOOSE value \in {
        IF hi.e # "Ok" THEN [e |-> hi.e, r |-> hi.r, v |-> Zeros(128)]
        ELSE CHOOSE value \in {
                 [e |-> lo.e, r |-> lo.r,
                  v |-> IF lo.e = "Ok" THEN hi.v \o lo.v ELSE Zeros(128)] :
                     lo \in {read_value(hi.r, 64)}} : TRUE :
            hi \in {read_value(r, 64)}} : TRUE

\* `as usize` of a u64: every value of 2^31 and more is represented by the
\* largest integer of the model
as_usize(v) ==
    IF \E i \in 1..33 : v[i] = 1 THEN UsizeWrapped ELSE BitsToNat(Low(v, 31))

\* MetadataType::from
MetadataType_from(u) ==
    IF u = 0 THEN "StreamInfo"
    ELSE IF u = 1 THEN "Padding"
    ELSE IF u = 2 THEN "Application"
    ELSE IF u = 3 THEN "Seektable"
    ELSE IF u = 4 THEN "VorbisComment"
    ELSE IF u = 5 THEN "Cuesheet"
    ELSE IF u = 6 THEN "Picture"
    ELSE IF u >= 7 /\ u <= 126 THEN "Reserved"
    ELSE "Invalid"

NoMetadataHeader ==
    [last |-> FALSE, type |-> "Invalid", length_in_bytes |-> 0]

\* MetadataHeader::from_reader
MetadataHeader_from_reader(r) ==
    CHOOSE value \in {
        IF last_.e # "Ok" THEN [e |-> last_.e, r |-> last_.r, header |-> NoMetadataHeader]
        ELSE CHOOSE value \in {
            IF type.e # "Ok" THEN [e |-> type.e, r |-> type.r, header |-> NoMetadataHeader]
            ELSE CHOOSE value \in {
                IF length.e # "Ok"
                THEN [e |-> length.e, r |-> length.r, header |-> NoMetadataHeader]
                ELSE [e |-> "Ok", r |-> length.r,
                      header |-> [last |-> last_.v, type |-> MetadataType_from(type.v),
                                  length_in_bytes |-> length.v]] :
                    length \in {read_u32_bits(type.r, 24)}} : TRUE :
                type \in {read_u8_bits(last_.r, 7)}} : TRUE :
            last_ \in {read_bool(r)}} : TRUE

\* MetadataHeader::skip_body: the body goes into a Bitvec that is dropped
skip_body(h, r) ==
    CHOOSE value \in {[e |-> b.e, r |-> b.r] :
        b \in {read_bitvec(r, <<>>, h.length_in_bytes * 8)}} : TRUE

NoStreamInfoRead ==
    [min_block_size |-> 0, max_block_size |-> 0, min_frame_size |-> 0,
     max_frame_size |-> 0, sample_rate |-> 0, number_of_channels |-> 0,
     bits_per_sample |-> 0, total_samples |-> 0, signature |-> Zeros(128)]

\* StreamInfo::from_reader
StreamInfo_from_reader(r) ==
    LET fail(e, rr) == [e |-> e, r |-> rr, info |-> NoStreamInfoRead] IN
    CHOOSE value \in {
     IF min_block_size.e # "Ok" THEN fail(min_block_size.e, min_block_size.r)
     ELSE CHOOSE value \in {
      IF max_block_size.e # "Ok" THEN fail(max_block_size.e, max_block_size.r)
      ELSE CHOOSE value \in {
       IF min_frame_size.e # "Ok" THEN fail(min_frame_size.e, min_frame_size.r)
       ELSE CHOOSE value \in {
        IF max_frame_size.e # "Ok" THEN fail(max_frame_size.e, max_frame_size.r)
        ELSE CHOOSE value \in {
         IF sample_rate.e # "Ok" THEN fail(sample_rate.e, sample_rate.r)
         ELSE CHOOSE value \in {
          IF channels.e # "Ok" THEN fail(channels.e, channels.r)
          ELSE CHOOSE value \in {
           IF bits_per_sample.e # "Ok" THEN fail(bits_per_sample.e, bits_per_sample.r)
           ELSE CHOOSE value \in {
            IF total_samples.e # "Ok" THEN fail(total_samples.e, total_samples.r)
            ELSE CHOOSE value \in {
             IF signature.e # "Ok" THEN fail(signature.e, signature.r)
             ELSE [e |-> "Ok", r |-> signature.r,
                   info |-> [min_block_size |-> min_block_size.v,
                             max_block_size |-> max_block_size.v,
                             min_frame_size |-> min_frame_size.v,
                             max_frame_size |-> max_frame_size.v,
                             sample_rate |-> sample_rate.v,
                             number_of_channels |-> channels.v + 1,
                             bits_per_sample |-> bits_per_sample.v + 1,
                             total_samples |-> as_usize(total_samples.v),
                             signature |-> signature.v]] :
                 signature \in {read_u128(total_samples.r)}} : TRUE :
                total_samples \in {read_u64_bits(bits_per_sample.r, 36)}} : TRUE :
               bits_per_sample \in {read_u8_bits(channels.r, 5)}} : TRUE :
              channels \in {read_u8_bits(sample_rate.r, 3)}} : TRUE :
             sample_rate \in {read_u32_bits(max_frame_size.r, 20)}} : TRUE :
            max_frame_size \in {read_u32_bits(min_frame_size.r, 24)}} : TRUE :
           min_frame_size \in {read_u32_bits(max_block_size.r, 24)}} : TRUE :
          max_block_size \in {read_u16(min_block_size.r)}} : TRUE :
         min_block_size \in {read_u16(r)}} : TRUE

----------------------------------------------------------------------------
(* Inter-channel decorrelation (frame.rs, Frame::from_reader)              *)

MinLen(a, b) ==
    IF Len(a) <= Len(b) THEN Len(a) ELSE Len(b)

\* LeftSideStereo with the operands of the subtraction exchanged
leftside_sample_swapped(left, side) ==
    LET d == sub_i32(side, left) IN
    [ch0 |-> left, ch1 |-> d.v, o |-> d.o]

\* LeftSideStereo: *side = *left - *side
leftside_sample(left, side) ==
    LET d == sub_i32(left, side) IN
    [ch0 |-> left, ch1 |-> d.v, o |-> d.o]

\* SideRightStereo: *side += *right
sideright_sample(side, right) ==
    LET d == add_i32(side, right) IN
    [ch0 |-> d.v, ch1 |-> right, o |-> d.o]

\* MidSideStereo: m = (*mid * 2) | (s & 1); *mid = (m + s) / 2; *side = (m - s) / 2
midside_sample(mid, side) ==
    LET dbl == add_i32(mid, mid)
        m   == dbl.v + (side % 2)
        p   == add_i32(m, side)
        q   == sub_i32(m, side)
    IN [ch0 |-> div2_i32(p.v), ch1 |-> div2_i32(q.v), o |-> dbl.o \/ p.o \/ q.o]

\* the sample pair number i of the two channels after the correlate loop of
\* the channel assignment
correlate_sample(kind, a, b) ==
    IF kind = "LeftSideStereo" THEN leftside_sample(a, b)
    ELSE IF kind = "SideRightStereo" THEN sideright_sample(a, b)
    ELSE midside_sample(a, b)

\* the correlate loop over the zipped first two buffers; an overflowing
\* operation panics under overflow checks and wraps without them
correlate(kind, bl, oc) ==
    LET k  == MinLen(bl[1], bl[2])
        cs == [i \in 1..k |-> correlate_sample(kind, bl[1][i], bl[2][i])]
        c0 == [i \in 1..Len(bl[1]) |-> IF i <= k THEN cs[i].ch0 ELSE bl[1][i]]
        c1 == [i \in 1..Len(bl[2]) |-> IF i <= k THEN cs[i].ch1 ELSE bl[2][i]]
    IN IF oc /\ \E i \in 1..k : cs[i].o
       THEN [e |-> "PanicOverflow", blocks |-> bl]
       ELSE [e |-> "Ok", blocks |-> [bl EXCEPT ![1] = c0, ![2] = c1]]

----------------------------------------------------------------------------
(* Encoded inputs: FLAC frames built field by field, as an encoder lays    *)
(* them out, with their CRC-8 and CRC-16                                   *)

RECURSIVE Flatten(_)
Flatten(ss) ==
    IF ss = <<>> THEN <<>> ELSE Head(ss) \o Flatten(Tail(ss))

\* the w-bit two's complement pattern of an i32 value, w <= 33
IntBits(x, w) ==
    LET p32 == NatToBits(((x \div 65536) + 65536) % 65536, 16) \o NatToBits(x % 65536, 16)
    IN IF w >= 32 THEN [i \in 1..(w - 32) |-> p32[1]] \o p32
       ELSE SubSeq(p32, 32 - w + 1, 32)

\* the 33-bit two's complement pattern of a + b and of a - b for i32 a, b
SumBits33(a, b) ==
    LET lo == (a % 65536) + (b % 65536)
        hi == (a \div 65536) + (b \div 65536) + (lo \div 65536)
    IN NatToBits((hi + 131072) % 131072, 17) \o NatToBits(lo % 65536, 16)

DiffBits33(a, b) ==
    LET lo == (a % 65536) - (b % 65536)
        hi == (a \div 65536) - (b \div 65536) + (lo \div 65536)
    IN NatToBits((hi + 131072) % 131072, 17) \o NatToBits(lo % 65536, 16)

\* the last w bits of a bit pattern
LastBits(b, w) ==
    SubSeq(b, Len(b) - w + 1, Len(b))

PadToByte(bits) ==
    bits \o Zeros((8 - (Len(bits) % 8)) % 8)

\* the bytes of a bit sequence whose length is a multiple of 8
BitsToBytes(bits) ==
    [i \in 1..(Len(bits) \div 8) |-> BitsToNat(SubSeq(bits, 8 * i - 7, 8 * i))]

\* the Rice code of a signed value with parameter k
RiceBits(k, val) ==
    LET v == IF val >= 0 THEN 2 * val ELSE -2 * val - 1 IN
    Zeros(v \div Pow2(k)) \o <<1>> \o NatToBits(v % Pow2(k), k)

\* a subframe header: zero bit, type code, wasted-bits flag and unary count
SubHeaderBits(type, wasted) ==
    <<0>> \o NatToBits(type, 6)
        \o (IF wasted = 0 THEN <<0>> ELSE <<1>> \o Zeros(wasted - 1) \o <<1>>)

SamplesBits(vs, w) ==
    Flatten([i \in 1..Len(vs) |-> IntBits(vs[i], w)])

\* a CONSTANT subframe of value v with `wasted` wasted bits, at frame width bps
ConstSub(wasted, v, bps) ==
    SubHeaderBits(0, wasted) \o IntBits(v, bps - wasted)

\* a VERBATIM subframe
VerbSub(wasted, vs, bps) ==
    SubHeaderBits(1, wasted) \o SamplesBits(vs, bps - wasted)

\* a residual section: coding method, partition order, and per partition the
\* Rice parameter followed by the codes of its residuals
ResidualBits(method, porder, parts) ==
    LET depth == IF method = 0 THEN 4 ELSE 5 IN
    NatToBits(method, 2) \o NatToBits(porder, 4)
        \o Flatten([i \in 1..Len(parts) |->
              NatToBits(parts[i].k, depth)
                  \o Flatten([j \in 1..Len(parts[i].res) |->
                        RiceBits(parts[i].k, parts[i].res[j])])])

\* an escaped partition: the escape parameter, a 5-bit width and raw samples
EscapeResidualBits(method, width, raw) ==
    LET depth == IF method = 0 THEN 4 ELSE 5 IN
    NatToBits(method, 2) \o NatToBits(0, 4)
        \o NatToBits(Pow2(depth) - 1, depth) \o NatToBits(width, 5)
        \o SamplesBits(raw, width)

\* a FIXED subframe: warm-up samples then the residual section
FixedSub(wasted, order, warm, residual, bps) ==
    SubHeaderBits(8 + order, wasted) \o SamplesBits(warm, bps - wasted) \o residual

\* an LPC subframe: warm-up, precision, shift, coefficients, residual section
FirSub(wasted, warm, precision_bits, shift, coefs, residual, bps) ==
    SubHeaderBits(32 + Len(warm) - 1, wasted) \o SamplesBits(warm, bps - wasted)
        \o NatToBits(precision_bits, 4) \o IntBits(shift, 5)
        \o SamplesBits(coefs, precision_bits + 1) \o residual

\* the bytes of a frame: header fields, UTF-8 number, variable fields,
\* CRC-8 (plus d8), subframes padded to a byte, CRC-16 (plus d16)
FrameBytesX(bs_code, sr_code, ch_code, ss_code, utf8, variable, body, d8, d16) ==
    CHOOSE value \in {CHOOSE value \in {pre \o <<((HasherCrc16_hash(0, pre) + d16) % 65536) \div 256,
                         ((HasherCrc16_hash(0, pre) + d16) % 65536) % 256>> :
                    pre \in {hb \o <<(HasherCrc8_hash(0, hb) + d8) % 256>>
                                \o BitsToBytes(PadToByte(body))}} : TRUE :
              hb \in {BitsToBytes(NatToBits(16382, 14) \o <<0, 0>> \o NatToBits(bs_code, 4)
                          \o NatToBits(sr_code, 4) \o NatToBits(ch_code, 4)
                          \o NatToBits(ss_code, 3) \o <<0>>)
                        \o utf8 \o variable}} : TRUE

\* a well-formed frame of block_size samples (variable 8-bit block size
\* field), sample size from StreamInfo
FrameBytes(ch_code, block_size, body) ==
    FrameBytesX(6, 0, ch_code, 0, <<0>>, <<block_size - 1>>, body, 0, 0)

\* the StreamInfo fields decode_frames uses, and total_samples, which it
\* never reads
Info(channels, bps) ==
    [number_of_channels |-> channels, bits_per_sample |-> bps, max_block_size |-> 192,
     total_samples |-> 4096]

Input(bytes, channels, bps) ==
    [bytes |-> bytes, info |-> Info(channels, bps)]

----------------------------------------------------------------------------
(* Bit reader runs: a fresh BitReader over a source, read_value by widths  *)

\* the source of test_boundary_crossover / test_singular, extended
TestVector ==
    <<182, 204, 246, 201, 137, 237, 72, 89, 214, 89, 165, 60>>

SeedSource(s) ==
    [i \in 1..SrcLen |-> (s * 83 + i * i * 29 + i * 101 + 7) % 256]

BitSources ==
    {SubSeq(TestVector \o SeedSource(0), 1, SrcLen)}
        \cup {SeedSource(s) : s \in 1..NumSeeds}

\* widths of the reads issued
ReadWidths ==
    {0, 1, 2, 3, 5, 7, 8, 9, 10, 13, 16, 24, 31, 32, 33, 57, 62, 63, 64}

NoStreamInfo ==
    [number_of_channels |-> 0, bits_per_sample |-> 0, max_block_size |-> 0]

BitInit ==
    /\ reader \in {NewReader(b) : b \in BitSources}
    /\ out = <<>>
    /\ last = [n |-> 0, v |-> Zeros(64), e |-> "None"]
    /\ stream_info = NoStreamInfo
    /\ blocks = <<>>
    /\ header = NoHeader
    /\ chan = 0
    /\ pc = "bits"
    /\ result = "Running"
    /\ sunk = <<>>
    /\ hist = <<>>
    /\ overflow_checks = TRUE

\* one successful read_value(n) on the reader
ReadValue ==
    /\ pc = "bits"
    /\ result = "Running"
    /\ \E n \in ReadWidths :
         \E rv \in {read_value(reader, n)} :
             /\ rv.e = "Ok"
             /\ reader' = rv.r
             /\ out' = out \o Low(rv.v, n)
             /\ last' = [n |-> n, v |-> rv.v, e |-> "Ok"]
    /\ UNCHANGED <<stream_info, blocks, header, chan, pc, result, sunk, hist, overflow_checks>>

\* a read_value(n) beyond the end of the source: the error is returned
ReadValueFail ==
    /\ pc = "bits"
    /\ result = "Running"
    /\ \E n \in ReadWidths :
         \E rv \in {read_value(reader, n)} :
             /\ rv.e # "Ok"
             /\ reader' = rv.r
             /\ last' = [n |-> n, v |-> rv.v, e |-> rv.e]
             /\ result' = rv.e
    /\ UNCHANGED <<out, stream_info, blocks, header, chan, pc, sunk, hist, overflow_checks>>

\* widths of the read_bitvec calls
BitvecWidths ==
    {0, 1, 2, 3, 5, 7, 8, 9, 12, 15, 16, 17, 24}

\* the bits a Bitvec holds, block after block
RECURSIVE BitvecBits(_)
BitvecBits(bl) ==
    IF bl = <<>> THEN <<>>
    ELSE (IF Head(bl).kind = "Bytes" THEN SrcBits(Head(bl).bytes)
          ELSE NatToBits(Head(bl).w % Pow2(Head(bl).q), Head(bl).q))
         \o BitvecBits(Tail(bl))

\* one successful read_bitvec(n) into a new Bitvec, as skip_body does; out
\* takes the bits the Bitvec holds
ReadBitvec ==
    /\ pc = "bits"
    /\ result = "Running"
    /\ \E n \in BitvecWidths :
         \E d \in {read_bitvec(reader, <<>>, n)} :
             /\ d.e = "Ok"
             /\ reader' = d.r
             /\ out' = out \o BitvecBits(d.bl)
             /\ last' = [n |-> n, v |-> Zeros(64), e |-> "Bitvec"]
    /\ UNCHANGED <<stream_info, blocks, header, chan, pc, result, sunk, hist,
                   overflow_checks>>

\* a read_bitvec(n) beyond the end of the source: the error is returned
ReadBitvecFail ==
    /\ pc = "bits"
    /\ result = "Running"
    /\ \E n \in BitvecWidths :
         \E d \in {read_bitvec(reader, <<>>, n)} :
             /\ d.e # "Ok"
             /\ reader' = d.r
             /\ last' = [n |-> n, v |-> Zeros(64), e |-> d.e]
             /\ result' = d.e
    /\ UNCHANGED <<out, stream_info, blocks, header, chan, pc, sunk, hist,
                   overflow_checks>>

BitNext ==
    \/ ReadValue
    \/ ReadValueFail
    \/ ReadBitvec
    \/ ReadBitvecFail

BitSpec ==
    BitInit /\ [][BitNext]_vars

----------------------------------------------------------------------------
\* C1: every successful read_value(n) on a fresh reader returns the next n
\* bits of the source, MSB first, as an unsigned integer (zero-extended to
\* 64 bits), so the returned values concatenated in their widths are a
\* prefix of the source bit sequence.
C1_RoundTrip ==
    pc = "bits" =>
        /\ out = SubSeq(SrcBits(reader.source), 1, Len(out))
        /\ last.e = "Ok" =>
              last.v = Zeros(64 - last.n) \o SubSeq(out, Len(out) - last.n + 1, Len(out))

\* a 64-bit read was served while 1..7 bits were queued, across byte boundaries
C1_Witness ==
    /\ pc = "bits"
    /\ last.e = "Ok"
    /\ last.n = 64
    /\ (Len(out) - 64) % 8 # 0
    /\ Len(out) > 64

----------------------------------------------------------------------------
(* The streams decoded: the frames that follow the metadata of a stream    *)
(* whose StreamInfo declares `channels` channels of 4 bits per sample      *)

Min(a, b) ==
    IF a <= b THEN a ELSE b

\* k samples in -4..3
Ramp(k, s) ==
    [i \in 1..k |-> ((s + 3 * i) % 8) - 4]

\* k residuals in -2..1
Residuals(k) ==
    [i \in 1..k |-> ((i + 1) % 4) - 2]

OnePartition(method, k, res) ==
    ResidualBits(method, 0, <<[k |-> k, res |-> res]>>)

\* the subframes of one channel of block_size samples at 4 bits per sample
MonoBodies(bs) ==
    {ConstSub(w, v, 4) : w \in 0..1, v \in {-3, 2}}
    \cup {VerbSub(w, Ramp(bs, s), 4) : w \in 0..1, s \in 0..1}
    \cup {FixedSub(0, order, Ramp(order, 1),
                   OnePartition(m, k, Residuals(bs - order)), 4) :
              order \in 0..Min(bs, 2), m \in 0..1, k \in 0..1}
    \cup {FirSub(0, Ramp(1, 0), 1, sh, <<1>>, OnePartition(0, 1, Residuals(bs - 1)), 4) :
              sh \in 0..1}

MonoStreams ==
    UNION {{Input(FrameBytes(0, bs, b), 1, 4) : b \in MonoBodies(bs)} : bs \in 1..MaxBlock}

\* the sample width of channel ch (0 or 1) under channel code cc
ChannelWidth(cc, ch, bps) ==
    IF (cc = 9 /\ ch = 0) \/ (cc \in {8, 10} /\ ch = 1) THEN bps + 1 ELSE bps

\* a two-channel frame of verbatim subframes
StereoFrame(cc, as, bs, bps) ==
    FrameBytes(cc, Len(as), VerbSub(0, as, ChannelWidth(cc, 0, bps))
                              \o VerbSub(0, bs, ChannelWidth(cc, 1, bps)))

StereoVals ==
    {-8, -3, 0, 7}

StereoStreams ==
    {Input(StereoFrame(cc, <<a>>, <<b>>, 4), 2, 4) :
        cc \in {1, 8, 9, 10}, a \in StereoVals, b \in StereoVals}
    \cup {Input(StereoFrame(cc, Ramp(bs, 1), Ramp(bs, 4), 4), 2, 4) :
        cc \in {1, 8, 9, 10}, bs \in 2..MaxBlock}

\* left/right pairs of 32-bit samples at the ends of the range and between
WidePairs ==
    {<<MinI32, -(MinI32 + 1)>>, <<-(MinI32 + 1), MinI32>>, <<MinI32, 0>>, <<5, -6>>}

\* a stereo frame of one 32-bit sample per channel as an encoder lays it
\* out: the side sample l - r takes all of its 33 bits
WideFrame(cc, l, r) ==
    FrameBytes(cc, 1,
        IF cc = 8
        THEN VerbSub(0, <<l>>, 32) \o SubHeaderBits(1, 0) \o DiffBits33(l, r)
        ELSE SubHeaderBits(1, 0) \o DiffBits33(l, r) \o VerbSub(0, <<r>>, 32))

WideStreams ==
    {Input(WideFrame(cc, p[1], p[2]), 2, 32) : cc \in {8, 9}, p \in WidePairs}

BaseFrame ==
    FrameBytes(0, 1, ConstSub(0, -3, 4))

TwoFrameStreams ==
    {Input(BaseFrame \o FrameBytes(0, 2, VerbSub(1, <<1, -2>>, 4)), 1, 4)}
    \cup {Input(StereoFrame(c1, <<5, -6>>, <<2, 7>>, 4) \o StereoFrame(c2, <<-1>>, <<3>>, 4), 2, 4) :
             c1 \in {1, 8, 9, 10}, c2 \in {1, 8}}

\* a well-formed stream followed by bytes that are no frame, or cut short
TailStreams ==
    {Input(BaseFrame \o t, 1, 4) :
        t \in {<<255>>, <<0>>, <<255, 248>>, <<0, 0>>, <<255, 248, 200>>}}
    \cup {Input(SubSeq(BaseFrame \o BaseFrame, 1, n), 1, 4) :
        n \in 1..(2 * Len(BaseFrame) - 1)}

\* frames whose CRC-8 or CRC-16 is not the declared one
CorruptStreams ==
    {Input(FrameBytesX(6, 0, 0, 0, <<0>>, <<0>>, ConstSub(0, -3, 4), d8, d16), 1, 4) :
        d8 \in 0..1, d16 \in 0..1}
    \cup {Input(BaseFrame \o FrameBytesX(6, 0, 0, 0, <<0>>, <<0>>, ConstSub(0, 2, 4), d8, 1 - d8), 1, 4) :
        d8 \in 0..1}

\* frames whose channel assignment does not match the StreamInfo channels
MismatchStreams ==
    {Input(FrameBytes(0, 1, ConstSub(0, -3, 4)), 2, 4),
     Input(BaseFrame \o BaseFrame, 2, 4),
     Input(StereoFrame(8, <<1>>, <<2>>, 4), 1, 4),
     Input(StereoFrame(1, <<1>>, <<2>>, 4), 1, 4),
     Input(StereoFrame(10, <<1>>, <<2>>, 4), 3, 4)}

\* header variants: table block sizes, sample sizes, UTF-8 numbers of
\* several bytes, variable sample rate fields, reserved codes
HeaderStreams ==
    {Input(FrameBytesX(1, 0, 0, 0, <<0>>, <<>>, ConstSub(0, 1, 4), 0, 0), 1, 4),
     Input(FrameBytesX(7, 0, 0, 1, <<0>>, <<0, 1>>, VerbSub(0, <<100, -100>>, 8), 0, 0), 1, 4),
     Input(FrameBytesX(6, 12, 0, 0, <<194, 128>>, <<0, 44>>, ConstSub(0, 1, 4), 0, 0), 1, 4),
     Input(FrameBytesX(6, 13, 0, 0, <<224, 128, 128>>, <<0, 1, 2>>, ConstSub(0, 1, 4), 0, 0), 1, 4),
     Input(FrameBytesX(6, 0, 0, 0, <<255, 1, 2, 3, 4, 5, 6, 7>>, <<0>>, ConstSub(0, 1, 4), 0, 0), 1, 4),
     Input(FrameBytesX(6, 0, 0, 3, <<0>>, <<0>>, ConstSub(0, 1, 4), 0, 0), 1, 4),
     Input(FrameBytesX(0, 0, 0, 0, <<0>>, <<>>, ConstSub(0, 1, 4), 0, 0), 1, 4),
     Input(FrameBytesX(6, 0, 11, 0, <<0>>, <<0>>, ConstSub(0, 1, 4), 0, 0), 1, 4)}

\* subframes a decoder has to reject or that use the rarer encodings
SubframeStreams ==
    {Input(FrameBytes(0, bs, b), 1, 4) : bs \in {2}, b \in
        {FixedSub(0, 0, <<>>, EscapeResidualBits(0, 4, <<1, -2>>), 4),
         FixedSub(0, 0, <<>>, EscapeResidualBits(1, 4, <<1, -2>>), 4),
         FixedSub(0, 0, <<>>, ResidualBits(2, 0, <<>>), 4),
         FixedSub(0, 0, <<>>, ResidualBits(0, 1, <<[k |-> 0, res |-> <<1>>], [k |-> 1, res |-> <<-2>>]>>), 4),
         FixedSub(0, 1, <<3>>, ResidualBits(0, 1, <<[k |-> 0, res |-> <<>>], [k |-> 1, res |-> <<-2>>]>>), 4),
         FixedSub(0, 3, <<1, 2, 3>>, OnePartition(0, 0, <<>>), 4),
         FixedSub(0, 2, <<1, 2>>, ResidualBits(0, 1, <<[k |-> 0, res |-> <<>>]>>), 4),
         FixedSub(5, 0, <<>>, OnePartition(0, 0, <<1, 1>>), 5),
         ConstSub(5, 0, 5),
         ConstSub(4, 0, 4),
         SubHeaderBits(2, 0) \o Zeros(8),
         <<1>> \o Zeros(15),
         FirSub(0, <<1>>, 15, 0, <<>>, <<>>, 4),
         FirSub(0, <<1>>, 2, -1, <<1>>, OnePartition(0, 0, <<1>>), 4),
         FirSub(0, <<7, 7>>, 3, 0, <<7, 7>>, OnePartition(0, 0, <<>>), 4)}}
    \cup {Input(FrameBytes(0, 3, FixedSub(0, 0, <<>>,
             ResidualBits(0, 1, <<[k |-> 0, res |-> <<1>>], [k |-> 0, res |-> <<2>>]>>), 4)), 1, 4),
          Input(FrameBytes(0, 5, FixedSub(0, 5, <<1, 2, 3, 1, 2>>, OnePartition(0, 0, <<>>), 4)), 1, 4)}

\* two frames of one sample each in a stream whose StreamInfo declares one
\* sample in total
ShortTotalStreams ==
    {[bytes |-> BaseFrame \o BaseFrame, info |-> [Info(1, 4) EXCEPT !.total_samples = 1]]}

Streams ==
    MonoStreams \cup StereoStreams \cup WideStreams \cup TwoFrameStreams \cup TailStreams
        \cup CorruptStreams \cup MismatchStreams \cup HeaderStreams \cup SubframeStreams
        \cup ShortTotalStreams

----------------------------------------------------------------------------
(* Stream::decode_frames (stream.rs) and Frame::from_reader (frame.rs)     *)

NoHist ==
    [start |-> 0, wasted |-> 0, dec |-> <<>>, wrapped |-> FALSE, L |-> 0, R |-> 0, bps |-> 0]

FrameInit ==
    /\ \E s \in Streams :
          /\ reader = NewReader(s.bytes)
          /\ stream_info = s.info
    /\ overflow_checks \in BOOLEAN
    /\ out = <<>>
    /\ last = [n |-> 0, v |-> Zeros(64), e |-> "None"]
    /\ blocks = <<>>
    /\ header = NoHeader
    /\ chan = 0
    /\ pc = "decode_frames"
    /\ result = "Running"
    /\ sunk = <<>>
    /\ hist = NoHist

\* decode_frames: allocate one buffer per StreamInfo channel
AllocateBlocks ==
    /\ pc = "decode_frames"
    /\ blocks' = [i \in 1..stream_info.number_of_channels |-> <<>>]
    /\ pc' = "frame"
    /\ UNCHANGED <<reader, out, last, stream_info, header, chan, result, sunk, hist,
                   overflow_checks>>

\* Frame::from_reader up to the frame header: open the CRC-16 region and
\* parse the header; Ok(None) ends decode_frames with Ok
FrameBegin ==
    /\ pc = "frame"
    /\ \E fh \in {FrameHeader_from_reader(compute_crc16_begin(reader), stream_info)} :
       /\ hist' = [hist EXCEPT !.start = reader.pos]
       /\ IF fh.e = "None"
          THEN /\ reader' = compute_crc16_end(fh.r).r
               /\ result' = "Ok"
               /\ pc' = "done"
               /\ UNCHANGED <<header, chan>>
          ELSE IF fh.e # "Ok"
          THEN /\ reader' = fh.r
               /\ result' = fh.e
               /\ pc' = "done"
               /\ UNCHANGED <<header, chan>>
          ELSE /\ reader' = fh.r
               /\ header' = fh.header
               /\ chan' = 0
               /\ pc' = "subframes"
               /\ UNCHANGED result
    /\ UNCHANGED <<out, last, stream_info, blocks, sunk, overflow_checks>>

\* whether subframe number ch of the frame is a side channel, read one bit wider
IsSide(kind, ch) ==
    \/ kind = "LeftSideStereo" /\ ch = 1
    \/ kind = "SideRightStereo" /\ ch = 0
    \/ kind = "MidSideStereo" /\ ch = 1

\* whether the buffer of subframe number ch is missing from blocks
Unallocated(kind, ch, bl) ==
    IF kind = "Independent" THEN ch >= Len(bl) ELSE Len(bl) < 2

\* Frame::from_reader: read and decode the next subframe of the frame into
\* its channel buffer
SubframeStep ==
    /\ pc = "subframes"
    /\ LET ca == header.channel_assignment IN
       IF Unallocated(ca.kind, chan, blocks)
       THEN /\ result' = "FrameBufferUnallocated"
            /\ pc' = "done"
            /\ UNCHANGED <<reader, blocks, chan, hist>>
       ELSE
       LET bps == header.sample_size + (IF IsSide(ca.kind, chan) THEN 1 ELSE 0) IN
       \E d \in {decode_subframe(reader, bps, header.block_size, blocks[chan + 1],
                                 overflow_checks)} :
       /\ reader' = d.r
       /\ blocks' = [blocks EXCEPT ![chan + 1] = d.vec]
       /\ hist' = [hist EXCEPT !.wasted = d.wasted,
                               !.dec = SubSeq(d.vec, Len(blocks[chan + 1]) + 1, Len(d.vec))]
       /\ IF d.e # "Ok"
          THEN result' = d.e /\ pc' = "done" /\ chan' = chan
          ELSE /\ result' = result
               /\ chan' = chan + 1
               /\ pc' = IF chan + 1 < ca.n THEN "subframes"
                        ELSE IF ca.kind = "Independent" THEN "finalize"
                        ELSE "correlate"
    /\ UNCHANGED <<out, last, stream_info, header, sunk, overflow_checks>>

\* Frame::from_reader: the correlate loop of a stereo channel assignment
Correlate ==
    /\ pc = "correlate"
    /\ \E c \in {correlate(header.channel_assignment.kind, blocks, overflow_checks)} :
       /\ blocks' = c.blocks
       /\ IF c.e # "Ok"
          THEN result' = c.e /\ pc' = "done"
          ELSE result' = result /\ pc' = "finalize"
    /\ UNCHANGED <<reader, out, last, stream_info, header, chan, sunk, hist, overflow_checks>>

\* Frame::from_reader: align to a byte, close the CRC-16 region, read the
\* declared CRC-16 and compare
FrameEnd ==
    /\ pc = "finalize"
    /\ LET closed == compute_crc16_end(align_to_byte(reader)) IN
       \E expected_crc16 \in {read_u16(closed.r)} :
       /\ reader' = expected_crc16.r
       /\ IF expected_crc16.e # "Ok"
          THEN result' = expected_crc16.e /\ pc' = "done"
          ELSE IF crc16_check(closed.v, expected_crc16.v) # "Ok"
          THEN result' = crc16_check(closed.v, expected_crc16.v) /\ pc' = "done"
          ELSE result' = result /\ pc' = "sink"
    /\ UNCHANGED <<out, last, stream_info, blocks, header, chan, sunk, hist, overflow_checks>>

\* decode_frames: hand the frame to the sink, then clear every buffer
SinkAndClear ==
    /\ pc = "sink"
    /\ sunk' = Append(sunk, [header |-> header, blocks |-> blocks])
    /\ blocks' = [i \in 1..Len(blocks) |-> <<>>]
    /\ pc' = "frame"
    /\ UNCHANGED <<reader, out, last, stream_info, header, chan, result, hist, overflow_checks>>

FrameNext ==
    \/ AllocateBlocks
    \/ FrameBegin
    \/ SubframeStep
    \/ Correlate
    \/ FrameEnd
    \/ SinkAndClear

FrameSpec ==
    FrameInit /\ [][FrameNext]_vars

----------------------------------------------------------------------------
(* Mid/side round trips: a left/right pair is encoded as mid and side      *)
(* samples, read back at the subframe widths and decorrelated              *)

\* the sample widths of the round trips
MSWidths ==
    {4, 8, 16, 24, 31, 32}

MinOf(bps) ==
    IF bps = 32 THEN MinI32 ELSE -Pow2(bps - 1)

MaxOf(bps) ==
    -(MinOf(bps) + 1)

\* samples of bps bits at and around the ends of the range and zero
MSValues(bps) ==
    {MinOf(bps), MinOf(bps) + 1, -2, -1, 0, 1, 2, MaxOf(bps) - 1, MaxOf(bps)}

MSInit ==
    /\ hist \in UNION {{[NoHist EXCEPT !.L = l, !.R = r, !.bps = b] :
                           l \in MSValues(b), r \in MSValues(b)} : b \in MSWidths}
    /\ overflow_checks \in BOOLEAN
    /\ reader = NewReader(<<>>)
    /\ out = <<>>
    /\ last = [n |-> 0, v |-> Zeros(64), e |-> "None"]
    /\ stream_info = NoStreamInfo
    /\ blocks = <<>>
    /\ header = NoHeader
    /\ chan = 0
    /\ pc = "ms_encode"
    /\ result = "Running"
    /\ sunk = <<>>

\* the encoder: M = (L + R) >> 1 in bps bits, S = L - R in bps + 1 bits
MSEncode ==
    /\ pc = "ms_encode"
    /\ LET mid  == LastBits(SubSeq(SumBits33(hist.L, hist.R), 1, 32), hist.bps)
           side == LastBits(DiffBits33(hist.L, hist.R), hist.bps + 1)
       IN reader' = NewReader(BitsToBytes(PadToByte(mid \o side)))
    /\ pc' = "ms_read"
    /\ UNCHANGED <<out, last, stream_info, blocks, header, chan, result, sunk, hist,
                   overflow_checks>>

\* the two subframes' samples as the verbatim decoder reads them
MSRead ==
    /\ pc = "ms_read"
    /\ \E m \in {read_sample(reader, hist.bps, overflow_checks)} :
         \E s \in {read_sample(m.r, hist.bps + 1, overflow_checks)} :
            /\ reader' = s.r
            /\ blocks' = << <<m.v>>, <<s.v>> >>
    /\ pc' = "ms_correlate"
    /\ UNCHANGED <<out, last, stream_info, header, chan, result, sunk, hist, overflow_checks>>

\* the MidSideStereo correlate loop of Frame::from_reader
MSCorrelate ==
    /\ pc = "ms_correlate"
    /\ \E c \in {correlate("MidSideStereo", blocks, overflow_checks)} :
       /\ blocks' = c.blocks
       /\ result' = IF c.e # "Ok" THEN c.e ELSE result
       /\ hist' = [hist EXCEPT !.wrapped = midside_sample(blocks[1][1], blocks[2][1]).o]
    /\ pc' = "ms_done"
    /\ UNCHANGED <<reader, out, last, stream_info, header, chan, sunk, overflow_checks>>

MSNext ==
    \/ MSEncode
    \/ MSRead
    \/ MSCorrelate

MSSpec ==
    MSInit /\ [][MSNext]_vars

----------------------------------------------------------------------------
(* Units of the decoder applied to drawn inputs                            *)

\* longest run of zero bits of the drawn Rice codes
MaxUnary == 3
\* largest number of samples after the warm-up of the drawn subframes
MaxExtra == 3

\* the Rice codes drawn: parameter k, q zero bits, remainder r
RiceCodes ==
    {[k |-> k, q |-> q, r |-> r] :
        k \in {0, 1, 3}, q \in 0..MaxUnary, r \in {0, 1, 5}}
    \cup {[k |-> 30, q |-> q, r |-> r] :
        q \in 0..MaxUnary, r \in {0, 1, 1073741822, 1073741823}}

\* the fixed-predictor subframes drawn: every order, warm-up samples of
\* three shapes, residuals all zero or not
FixedInputs ==
    {[order |-> order, warm |-> Ramp(order, s), res |-> res] :
        order \in 0..4, s \in 0..2,
        res \in UNION {{Zeros(n), Residuals(n)} : n \in 1..MaxExtra}}

\* the widths 1..64, each with the n-bit values at both ends, with only the
\* top bit, with all but the top bit, and with alternating bits
SignInputs ==
    UNION {{[n |-> k, u |-> u] : u \in
               {Zeros(k), [i \in 1..k |-> 1], <<1>> \o Zeros(k - 1),
                <<0>> \o [i \in 1..(k - 1) |-> 1], Zeros(k - 1) \o <<1>>,
                [i \in 1..k |-> i % 2], [i \in 1..k |-> (i + 1) % 2]}} :
           k \in 1..64}

\* the steps taken on a proxy
MaxProxySteps ==
    5

\* the sources under a DecodingReadProxy
ProxySources ==
    {<<182, 204, 246>>, <<0, 0, 1>>}

\* the largest block size of the residual sections
MaxResBlock ==
    8

\* block sizes, predictor orders and partition orders of residual sections
ResidualInputs ==
    [block_size : 1..MaxResBlock, predictor_order : 0..4, partition_order : 0..3]

\* a residual section of coding method 0 whose partitions have parameter 0
\* and hold zero residuals, as many as the format gives each partition,
\* followed by two bytes
ResidualSource(h) ==
    BitsToBytes(PadToByte(<<0, 0>> \o NatToBits(h.partition_order, 4)
        \o Flatten([i \in 1..Pow2(h.partition_order) |->
               Zeros(4) \o [j \in 1..((h.block_size \div Pow2(h.partition_order))
                                       - (IF i = 1 THEN h.predictor_order ELSE 0)) |-> 1]])))
    \o <<255, 255>>

\* every first byte of the coded number, with the block size and sample
\* rate codes that have no field, a field of one byte, a field of two
NumberInputs ==
    [b : 0..255, block_size_bits : {0, 6, 7}, sample_rate_bits : {0, 12, 13}]

\* the bytes behind the first byte of the coded number
NumberTail ==
    [i \in 1..11 |-> 16 * i + 1]

UnitInit ==
    /\ \/ /\ hist \in FixedInputs
          /\ reader = NewReader(BitsToBytes(PadToByte(
                FixedSub(0, hist.order, hist.warm, OnePartition(0, 1, hist.res), 4))))
          /\ pc = "fixed"
       \/ /\ hist \in {[codes |-> <<a, b>>] :
                        a \in {c \in RiceCodes : c.r < Pow2(c.k)},
                        b \in {c \in RiceCodes : c.r < Pow2(c.k) /\ c.q < 2 /\ c.k > 0}}
          /\ reader = NewReader(BitsToBytes(PadToByte(Flatten(
                [i \in 1..2 |-> Zeros(hist.codes[i].q) \o <<1>>
                                   \o NatToBits(hist.codes[i].r, hist.codes[i].k)]))))
          /\ pc = "rice"
       \/ /\ hist \in SignInputs
          /\ reader = NewReader(<<>>)
          /\ pc = "sign"
       \/ /\ hist \in ProxySources
          /\ reader = NewReader(hist)
          /\ pc = "proxy"
       \/ /\ hist \in NumberInputs
          /\ reader = NewReader(<<hist.b>> \o NumberTail)
          /\ pc = "number"
       \/ /\ hist \in ResidualInputs
          /\ reader = NewReader(ResidualSource(hist))
          /\ pc = "residuals"
    /\ overflow_checks \in BOOLEAN
    /\ out = <<>>
    /\ last = [n |-> 0, v |-> Zeros(64), e |-> "None"]
    /\ stream_info = NoStreamInfo
    /\ blocks = <<>>
    /\ header = NoHeader
    /\ chan = 0
    /\ result = "Running"
    /\ sunk = <<>>

\* decode_rice with the parameter of the next code; the bits consumed so
\* far are the bytes fetched less the bits still queued
RiceStep ==
    /\ pc = "rice"
    /\ Len(out) < Len(hist.codes)
    /\ \E d \in {decode_rice(reader, hist.codes[Len(out) + 1].k)} :
         /\ reader' = d.r
         /\ out' = Append(out, [e |-> d.e, v |-> d.v,
                                bits |-> 8 * d.r.pos - d.r.queue_count])
    /\ UNCHANGED <<last, stream_info, blocks, header, chan, pc, result, sunk, hist,
                   overflow_checks>>

\* a FIXED subframe of 4-bit samples read and decoded into an empty buffer
FixedStep ==
    /\ pc = "fixed"
    /\ \E d \in {decode_subframe(reader, 4, hist.order + Len(hist.res), <<>>,
                                 overflow_checks)} :
         /\ reader' = d.r
         /\ blocks' = <<d.vec>>
         /\ result' = d.e
    /\ pc' = "fixed_done"
    /\ UNCHANGED <<out, last, stream_info, header, chan, sunk, hist, overflow_checks>>

\* sign_extend applied to the drawn value, zero-extended to a u64
SignExtendStep ==
    /\ pc = "sign"
    /\ \E sx \in {sign_extend(Zeros(64 - hist.n) \o hist.u, hist.n, overflow_checks)} :
         last' = [n |-> hist.n, v |-> sx.v, e |-> sx.e]
    /\ pc' = "sign_done"
    /\ UNCHANGED <<reader, out, stream_info, blocks, header, chan, result, sunk, hist,
                   overflow_checks>>

\* compute_crc8_begin or compute_crc16_begin on the proxy
CrcBeginStep ==
    /\ pc = "proxy"
    /\ chan < MaxProxySteps
    /\ \/ /\ reader' = compute_crc8_begin(reader)
          /\ last' = [n |-> 0, v |-> Zeros(64), e |-> "Begin8"]
       \/ /\ reader' = compute_crc16_begin(reader)
          /\ last' = [n |-> 0, v |-> Zeros(64), e |-> "Begin16"]
    /\ chan' = chan + 1
    /\ UNCHANGED <<out, stream_info, blocks, header, pc, result, sunk, hist,
                   overflow_checks>>

\* compute_crc8_end or compute_crc16_end on the proxy
CrcEndStep ==
    /\ pc = "proxy"
    /\ chan < MaxProxySteps
    /\ \/ /\ reader' = compute_crc8_end(reader).r
          /\ last' = [n |-> 0, v |-> Zeros(64), e |-> "End8"]
       \/ /\ reader' = compute_crc16_end(reader).r
          /\ last' = [n |-> 0, v |-> Zeros(64), e |-> "End16"]
    /\ chan' = chan + 1
    /\ UNCHANGED <<out, stream_info, blocks, header, pc, result, sunk, hist,
                   overflow_checks>>

\* Read::read_exact of the proxy for a buffer of 1 to 3 bytes; last takes
\* the result
ReadExactStep ==
    /\ pc = "proxy"
    /\ chan < MaxProxySteps
    /\ \E n \in 1..3 :
         \E rd \in {read_exact(reader, n)} :
             /\ reader' = rd.r
             /\ last' = [n |-> n, v |-> Zeros(64), e |-> rd.e]
    /\ chan' = chan + 1
    /\ UNCHANGED <<out, stream_info, blocks, header, pc, result, sunk, hist,
                   overflow_checks>>

\* decode_residuals of a subframe of the drawn block size into a buffer
\* that holds the warm-up samples
ResidualStep ==
    /\ pc = "residuals"
    /\ \E d \in {decode_residuals([block_size |-> hist.block_size, sample_size |-> 4,
                                    method |-> "Fixed", wasted |-> 0],
                                   reader, Zeros(hist.predictor_order),
                                   hist.predictor_order, overflow_checks)} :
         /\ reader' = d.r
         /\ blocks' = <<d.vec>>
         /\ result' = d.e
    /\ pc' = "residuals_done"
    /\ UNCHANGED <<out, last, stream_info, header, chan, sunk, hist, overflow_checks>>

\* FrameHeader::from_reader from the coded number to the variable sample
\* rate: out takes the continuation bytes read and the block size field
NumberStep ==
    /\ pc = "number"
    /\ LET done(e, r, k, v) ==
               /\ reader' = r
               /\ out' = <<[e |-> e, skipped |-> k, variable_block_size |-> v]>>
           none == [some |-> FALSE, v |-> 0]
       IN
       \E v1 \in {read_u8(reader)} :
         IF v1.e # "Ok" THEN done(v1.e, v1.r, 0, none)
         ELSE
         \E u \in {utf8_skip(v1.r, v1.v)} :
           IF u.e # "Ok" THEN done(u.e, u.r, u.r.pos - v1.r.pos, none)
           ELSE
           \E vbs \in {read_variable_block_size(u.r, hist.block_size_bits)} :
             IF vbs.e # "Ok" THEN done(vbs.e, vbs.r, u.r.pos - v1.r.pos, none)
             ELSE
             \E vsr \in {read_variable_sample_rate(vbs.r, hist.sample_rate_bits)} :
               done(vsr.e, vsr.r, u.r.pos - v1.r.pos, vbs.v)
    /\ pc' = "number_done"
    /\ UNCHANGED <<last, stream_info, blocks, header, chan, result, sunk, hist,
                   overflow_checks>>

UnitNext ==
    \/ NumberStep
    \/ ResidualStep
    \/ RiceStep
    \/ FixedStep
    \/ SignExtendStep
    \/ CrcBeginStep
    \/ CrcEndStep
    \/ ReadExactStep

UnitSpec ==
    UnitInit /\ [][UnitNext]_vars

----------------------------------------------------------------------------
(* Stream::new (stream.rs) over drawn metadata chains                      *)

\* the number of metadata blocks that may follow the first one
MaxMeta ==
    2

\* the 34 bytes of a StreamInfo body
StreamInfoBody(channels, bps, total) ==
    BitsToBytes(NatToBits(192, 16) \o NatToBits(192, 16) \o NatToBits(14, 24)
                \o NatToBits(4000, 24) \o NatToBits(44100, 20)
                \o NatToBits(channels - 1, 3) \o NatToBits(bps - 1, 5)
                \o Zeros(5) \o NatToBits(total, 31)
                \o Flatten([i \in 1..16 |-> NatToBits(16 * i - 1, 8)]))

\* a metadata block header followed by its body: the first `length` bytes
\* of body
MetaBlock(b, body) ==
    BitsToBytes(<<IF b.last THEN 1 ELSE 0>> \o NatToBits(b.type, 7)
                \o NatToBits(b.length, 24))
    \o SubSeq(body \o <<165, 90, 60>>, 1, b.length)

\* the bytes of the chain bl, whose first block carries the StreamInfo body
RECURSIVE ChainBytes(_, _)
ChainBytes(bl, first) ==
    IF bl = <<>> THEN <<>>
    ELSE MetaBlock(Head(bl), IF first THEN StreamInfoBody(2, 16, 1000) ELSE <<>>)
         \o ChainBytes(Tail(bl), FALSE)

FirstBlocks ==
    [last : BOOLEAN, type : {0, 1, 127}, length : {34}]

\* first blocks that declare one byte more than a StreamInfo body
LongFirstBlocks ==
    [last : BOOLEAN, type : {0}, length : {35}]

LaterBlocks ==
    [last : BOOLEAN, type : {1, 4}, length : {0, 1, 3}]

\* a frame's first bytes
SyncBytes ==
    <<255, 248>>

MagicBytes ==
    <<102, 76, 97, 67>>

StreamBytes(h) ==
    SubSeq(h.magic \o ChainBytes(h.blocks, TRUE) \o h.tail, 1, h.cut)

FullLen(magic, bl, tail) ==
    Len(magic \o ChainBytes(bl, TRUE) \o tail)

\* the chain of the streams that are cut short
CutChain ==
    <<[last |-> FALSE, type |-> 0, length |-> 34],
      [last |-> FALSE, type |-> 4, length |-> 3],
      [last |-> TRUE, type |-> 1, length |-> 1]>>

\* streams with every chain, streams cut short, streams with another magic
StreamInputs ==
    {[magic |-> MagicBytes, blocks |-> <<f>> \o rest, tail |-> tail,
      cut |-> FullLen(MagicBytes, <<f>> \o rest, tail)] :
        f \in FirstBlocks, tail \in {<<>>, SyncBytes},
        rest \in UNION {[1..k -> LaterBlocks] : k \in 0..MaxMeta}}
    \cup {[magic |-> MagicBytes, blocks |-> <<f>> \o rest, tail |-> tail,
           cut |-> FullLen(MagicBytes, <<f>> \o rest, tail)] :
            f \in LongFirstBlocks, tail \in {<<>>, SyncBytes},
            rest \in UNION {[1..k -> LaterBlocks] : k \in 0..1}}
    \cup {[magic |-> MagicBytes, blocks |-> CutChain, tail |-> <<>>, cut |-> cut] :
            cut \in 0..FullLen(MagicBytes, CutChain, <<>>)}
    \cup {[magic |-> m, blocks |-> <<[last |-> TRUE, type |-> 0, length |-> 34]>>,
           tail |-> SyncBytes, cut |-> 44] :
            m \in {<<102, 76, 97, 68>>, <<73, 68, 51, 3>>}}

StreamInit ==
    /\ hist \in StreamInputs
    /\ reader = NewReader(StreamBytes(hist))
    /\ stream_info = NoStreamInfoRead
    /\ header = NoMetadataHeader
    /\ overflow_checks = FALSE
    /\ out = <<>>
    /\ last = [n |-> 0, v |-> Zeros(64), e |-> "None"]
    /\ blocks = <<>>
    /\ chan = 0
    /\ pc = "new"
    /\ result = "Running"
    /\ sunk = <<>>

\* Stream::new up to the test of the first header's last flag: out collects
\* the headers read
StreamNew ==
    /\ pc = "new"
    /\ \E magic \in {read_u32(reader)} :
         IF magic.e # "Ok"
         THEN /\ reader' = magic.r
              /\ result' = magic.e
              /\ pc' = "failed"
              /\ UNCHANGED <<header, stream_info, out>>
         ELSE IF magic.v # 1716281667
         THEN /\ reader' = magic.r
              /\ result' = "WrongMagic"
              /\ pc' = "failed"
              /\ UNCHANGED <<header, stream_info, out>>
         ELSE
         \E h \in {MetadataHeader_from_reader(magic.r)} :
           IF h.e # "Ok"
           THEN /\ reader' = h.r
                /\ result' = h.e
                /\ pc' = "failed"
                /\ UNCHANGED <<header, stream_info, out>>
           ELSE
           \E info \in {StreamInfo_from_reader(h.r)} :
             /\ reader' = info.r
             /\ header' = h.header
             /\ out' = Append(out, h.header)
             /\ IF info.e # "Ok"
                THEN /\ result' = info.e
                     /\ pc' = "failed"
                     /\ UNCHANGED stream_info
                ELSE /\ stream_info' = info.info
                     /\ result' = IF h.header.last THEN "Ok" ELSE "Running"
                     /\ pc' = IF h.header.last THEN "opened" ELSE "metadata"
    /\ UNCHANGED <<last, blocks, chan, sunk, hist, overflow_checks>>

\* one turn of the loop of Stream::new over the blocks after the first
SkipBlock ==
    /\ pc = "metadata"
    /\ \E h \in {MetadataHeader_from_reader(reader)} :
         IF h.e # "Ok"
         THEN /\ reader' = h.r
              /\ result' = h.e
              /\ pc' = "failed"
              /\ UNCHANGED <<header, out>>
         ELSE
         \E s \in {skip_body(h.header, h.r)} :
           /\ reader' = s.r
           /\ header' = h.header
           /\ out' = Append(out, h.header)
           /\ IF s.e # "Ok"
              THEN /\ result' = s.e
                   /\ pc' = "failed"
              ELSE /\ result' = IF h.header.last THEN "Ok" ELSE "Running"
                   /\ pc' = IF h.header.last THEN "opened" ELSE "metadata"
    /\ UNCHANGED <<stream_info, last, blocks, chan, sunk, hist, overflow_checks>>

StreamNext ==
    \/ StreamNew
    \/ SkipBlock

StreamSpec ==
    StreamInit /\ [][StreamNext]_vars

----------------------------------------------------------------------------
(* read_bitvec calls into one Bitvec (bits.rs, bitvec.rs)                  *)

\* a fresh BitReader and an empty Bitvec, which blocks holds; chan counts
\* the bits asked for
BitvecInit ==
    /\ reader \in {NewReader(b) : b \in BitSources}
    /\ blocks = <<>>
    /\ chan = 0
    /\ out = <<>>
    /\ last = [n |-> 0, v |-> Zeros(64), e |-> "None"]
    /\ stream_info = NoStreamInfo
    /\ header = NoHeader
    /\ pc = "bitvec"
    /\ result = "Running"
    /\ sunk = <<>>
    /\ hist = <<>>
    /\ overflow_checks = TRUE

\* one successful read_bitvec(n) into the Bitvec
ReadInto ==
    /\ pc = "bitvec"
    /\ result = "Running"
    /\ \E n \in BitvecWidths :
         \E d \in {read_bitvec(reader, blocks, n)} :
             /\ d.e = "Ok"
             /\ reader' = d.r
             /\ blocks' = d.bl
             /\ chan' = chan + n
             /\ last' = [n |-> n, v |-> Zeros(64), e |-> "Bitvec"]
    /\ UNCHANGED <<out, stream_info, header, pc, result, sunk, hist, overflow_checks>>

\* a read_bitvec(n) into the Bitvec beyond the end of the source
ReadIntoFail ==
    /\ pc = "bitvec"
    /\ result = "Running"
    /\ \E n \in BitvecWidths :
         \E d \in {read_bitvec(reader, blocks, n)} :
             /\ d.e # "Ok"
             /\ reader' = d.r
             /\ blocks' = d.bl
             /\ last' = [n |-> n, v |-> Zeros(64), e |-> d.e]
             /\ result' = d.e
    /\ UNCHANGED <<out, stream_info, header, chan, pc, sunk, hist, overflow_checks>>

BitvecNext ==
    \/ ReadInto
    \/ ReadIntoFail

BitvecSpec ==
    BitvecInit /\ [][BitvecNext]_vars

----------------------------------------------------------------------------
(* decode_to_wav (main.rs): Stream::new followed by decode_frames on the  *)
(* same reader                                                             *)

\* a whole stream: the magic, a StreamInfo block that declares s.info,
\* the blocks mid, and the frames of s
RunStream(s, mid) ==
    MagicBytes
    \o MetaBlock([last |-> mid = <<>>, type |-> 0, length |-> 34],
                 StreamInfoBody(s.info.number_of_channels, s.info.bits_per_sample,
                                s.info.total_samples))
    \o mid \o s.bytes

\* a block between the StreamInfo block and the first frame
MidBlock ==
    MetaBlock([last |-> TRUE, type |-> 4, length |-> 3], <<>>)

\* the stream whose every prefix is decoded
CutStream ==
    RunStream([bytes |-> BaseFrame, info |-> Info(1, 4)], <<>>)

\* the streams of frames that follow the metadata
RunStreams ==
    TwoFrameStreams \cup SubframeStreams \cup HeaderStreams \cup ShortTotalStreams

\* whole streams, every prefix of one of them, and metadata chains with at
\* most two bytes after them
RunSources ==
    {RunStream(s, <<>>) : s \in RunStreams}
    \cup {RunStream(s, MidBlock) : s \in TwoFrameStreams}
    \cup {SubSeq(CutStream, 1, cut) : cut \in 0..Len(CutStream)}
    \cup {StreamBytes(h) : h \in {g \in StreamInputs : Len(g.blocks) = 2 /\ g.tail # <<>>}}

RunInit ==
    /\ reader \in {NewReader(b) : b \in RunSources}
    /\ stream_info = NoStreamInfoRead
    /\ header = NoMetadataHeader
    /\ overflow_checks \in BOOLEAN
    /\ out = <<>>
    /\ last = [n |-> 0, v |-> Zeros(64), e |-> "None"]
    /\ blocks = <<>>
    /\ chan = 0
    /\ pc = "new"
    /\ result = "Running"
    /\ sunk = <<>>
    /\ hist = NoHist

\* decode_to_wav between the two calls: the Ok of Stream::new passes the
\* `?` and decode_frames is called with the same reader
CallDecodeFrames ==
    /\ pc = "opened"
    /\ pc' = "decode_frames"
    /\ result' = "Running"
    /\ header' = NoHeader
    /\ UNCHANGED <<reader, out, last, stream_info, blocks, chan, sunk, hist,
                   overflow_checks>>

RunNext ==
    \/ StreamNew
    \/ SkipBlock
    \/ CallDecodeFrames
    \/ AllocateBlocks
    \/ FrameBegin
    \/ SubframeStep
    \/ Correlate
    \/ FrameEnd
    \/ SinkAndClear

\* the program is one thread that takes its next step whenever it has one
RunSpec ==
    RunInit /\ [][RunNext]_vars /\ WF_vars(RunNext)

----------------------------------------------------------------------------
(* Properties of decode_frames                                             *)

\* the CRC-16 declared by the two bytes that end at the reader's position
DeclaredCrc16 ==
    reader.source[reader.pos - 1] * 256 + reader.source[reader.pos]

AllLen(bl, n) ==
    \A i \in 1..Len(bl) : Len(bl[i]) = n

\* C2: when Frame::from_reader returns Some (the frame is about to be
\* sunk), the bytes folded into CRC-16 since compute_crc16_begin are exactly
\* the source bytes from the frame's first byte up to the byte before the
\* two CRC-16 bytes, the region is closed, and the accumulated value is the
\* declared CRC-16; a frame whose CRC-16 bytes were read is accepted iff the
\* value is the declared one and fails with FrameCrcMismatch otherwise.
C2_Crc16Region ==
    /\ [](pc = "sink" =>
            /\ reader.fold16 = SubSeq(reader.source, hist.start + 1, reader.pos - 2)
            /\ ~reader.computing_crc16
            /\ reader.queue_count = 0
            /\ reader.crc16 = DeclaredCrc16)
    /\ [][(pc = "finalize" /\ reader'.pos = reader.pos + 2) =>
            /\ reader'.fold16 = SubSeq(reader.source, hist.start + 1, reader.pos)
            /\ (reader'.crc16 # DeclaredCrc16') => (result' = "FrameCrcMismatch" /\ pc' = "done")
            /\ (reader'.crc16 = DeclaredCrc16') => (result' = "Running" /\ pc' = "sink")]_vars

\* the second frame of a stream was accepted, after subframes that do not
\* end on a byte boundary
C2_Witness ==
    /\ pc = "sink"
    /\ hist.start > 0
    /\ Len(sunk) = 1
    /\ Len(reader.fold16) >= 6

\* C3: when a frame header is accepted, the bytes folded into CRC-8 are the
\* source bytes from the frame's first byte up to the byte before the CRC-8
\* byte, the CRC-8 byte is not folded into CRC-8 but is folded into the open
\* CRC-16 region, and the CRC-8 value is the declared one; when the result is
\* FrameHeaderCrcMismatch the value differs from the declared one and
\* nothing after the CRC-8 byte has been read.
C3_Crc8Region ==
    /\ (pc = "subframes" /\ chan = 0) =>
          /\ reader.fold8 = SubSeq(reader.source, hist.start + 1, reader.pos - 1)
          /\ ~reader.computing_crc8
          /\ reader.crc8 = reader.source[reader.pos]
          /\ reader.computing_crc16
          /\ reader.fold16 = SubSeq(reader.source, hist.start + 1, reader.pos)
          /\ reader.queue_count = 0
    /\ result = "FrameHeaderCrcMismatch" =>
          /\ reader.fold8 = SubSeq(reader.source, hist.start + 1, reader.pos - 1)
          /\ reader.crc8 # reader.source[reader.pos]
          /\ reader.fold16 = SubSeq(reader.source, hist.start + 1, reader.pos)
          /\ reader.queue_count = 0
          /\ pc = "done"
          /\ AllLen(blocks, 0)

\* a header with a UTF-8 number of several bytes was accepted
C3_Witness ==
    /\ pc = "subframes"
    /\ chan = 0
    /\ Len(reader.fold8) >= 7

C5_SinkLengths ==
    pc = "sink" =>
        /\ Len(blocks) = stream_info.number_of_channels
        /\ AllLen(blocks, header.block_size)

\* C6 (as claimed): the samples a subframe with w > 0 wasted bits leaves in
\* its buffer are the values decoded at the reduced width shifted left by w.
C6_WastedShift ==
    (/\ result = "Running"
     /\ chan >= 1
     /\ hist.wasted > 0
     /\ \/ pc \in {"subframes", "correlate"}
        \/ pc = "finalize" /\ header.channel_assignment.kind = "Independent") =>
        /\ Len(blocks[chan]) = Len(hist.dec)
        /\ \A i \in 1..Len(hist.dec) : blocks[chan][i] = hist.dec[i] * Pow2(hist.wasted)

\* C7 (as claimed): a partition whose Rice parameter is the escape value
\* is decoded without failure or abort.
C7_EscapeHandled ==
    result # "PanicAssertEscape"

\* C8 (as claimed): decode_frames returns Ok only when the source was
\* exhausted where the next frame would start.
C8_CleanEof ==
    (pc = "done" /\ result = "Ok") => hist.start = Len(reader.source)

\* C9 (as claimed): for left/right samples of up to 32 bits the MidSide
\* reconstruction returns the pair, with no operation wrapping or aborting.
C9_MidSideRoundTrip ==
    pc = "ms_done" =>
        /\ result = "Running"
        /\ ~hist.wrapped
        /\ blocks = << <<hist.L>>, <<hist.R>> >>

zigzag(k, q, r) ==
    IF k = 0 THEN (IF q % 2 = 0 THEN q \div 2 ELSE -(q \div 2) - 1)
    ELSE IF r % 2 = 0 THEN q * Pow2(k - 1) + r \div 2
    ELSE -(q * Pow2(k - 1) + r \div 2) - 1

\* C11 (as claimed): decode_rice on the code of (k, q, r) returns the
\* zig-zag decoding of (q << k) | r and has consumed exactly q + 1 + k bits
\* more than before, whatever the parameter of the code before it.
C11_RiceDecode ==
    pc = "rice" =>
        \A i \in 1..Len(out) :
            /\ out[i].e = "Ok"
            /\ out[i].v = zigzag(hist.codes[i].k, hist.codes[i].q, hist.codes[i].r)
            /\ out[i].bits = (IF i = 1 THEN 0 ELSE out[i - 1].bits)
                                + hist.codes[i].q + 1 + hist.codes[i].k

\* the n-th finite difference of the sequence x at position i
RECURSIVE finite_difference(_, _, _)
finite_difference(x, n, i) ==
    IF n = 0 THEN x[i]
    ELSE finite_difference(x, n - 1, i) - finite_difference(x, n - 1, i - 1)

\* C12: a FIXED subframe of order 0..4 decodes without error to block_size
\* samples: the warm-up samples as sent, then each x[i] = residual[i] +
\* sum_j coeff[j] * x[i-1-j] with coeff = [], [1], [2,-1], [3,-3,1],
\* [4,-6,4,-1]; when every residual is zero the order-th finite difference
\* of the output is zero at every restored sample.
C12_FixedRestore ==
    pc = "fixed_done" =>
        LET x     == blocks[1]
            coeff == << <<>>, <<1>>, <<2, -1>>, <<3, -3, 1>>, <<4, -6, 4, -1>> >>[hist.order + 1]
            sum(i) == IF hist.order = 0 THEN 0
                      ELSE IF hist.order = 1 THEN coeff[1] * x[i - 1]
                      ELSE IF hist.order = 2 THEN coeff[1] * x[i - 1] + coeff[2] * x[i - 2]
                      ELSE IF hist.order = 3
                      THEN coeff[1] * x[i - 1] + coeff[2] * x[i - 2] + coeff[3] * x[i - 3]
                      ELSE coeff[1] * x[i - 1] + coeff[2] * x[i - 2] + coeff[3] * x[i - 3]
                               + coeff[4] * x[i - 4]
        IN /\ result = "Ok"
           /\ Len(x) = hist.order + Len(hist.res)
           /\ SubSeq(x, 1, hist.order) = hist.warm
           /\ \A i \in (hist.order + 1)..Len(x) :
                  /\ x[i] = hist.res[i - hist.order] + sum(i)
                  /\ hist.res = Zeros(Len(hist.res)) => finite_difference(x, hist.order, i) = 0

\* an order-4 subframe with zero residuals extrapolated three samples from
\* warm-up samples that are not all equal
C12_Witness ==
    /\ pc = "fixed_done"
    /\ hist.order = 4
    /\ hist.res = Zeros(3)
    /\ hist.warm[1] # hist.warm[2]
    /\ Len(blocks[1]) = 7


----------------------------------------------------------------------------
(* Properties of Stream::new                                               *)

\* the bytes of the chain bl up to and including its first block with the
\* last flag: 4 header bytes and the declared length for each
RECURSIVE DeclaredBytes(_)
DeclaredBytes(bl) ==
    IF bl = <<>> THEN 0
    ELSE 4 + Head(bl).length + (IF Head(bl).last THEN 0 ELSE DeclaredBytes(Tail(bl)))

\* C13: when Stream::new succeeds, it has consumed the 4 magic bytes and,
\* for each metadata block up to and including the first one with the last
\* flag, 4 header bytes and the block's declared length; the reader is
\* byte-aligned on the byte after that block.
C13_ConsumedDeclared ==
    result = "Ok" =>
        /\ \E i \in 1..Len(hist.blocks) : hist.blocks[i].last
        /\ reader.pos = 4 + DeclaredBytes(hist.blocks)
        /\ reader.queue_count = 0

\* C14: a StreamInfo is returned only when the first block's type code is
\* 0; with another type code Stream::new fails with InvalidMetadataType.
C14_FirstIsStreamInfo ==
    /\ result = "Ok" => hist.blocks[1].type = 0
    /\ (Len(out) > 0 /\ out[1].type # "StreamInfo")
           => result = "InvalidMetadataType"

----------------------------------------------------------------------------
(* Properties of the delivered totals                                      *)

\* the samples delivered on channel ch by the sink invocations fs
RECURSIVE Delivered(_, _)
Delivered(fs, ch) ==
    IF fs = <<>> THEN 0
    ELSE (IF ch <= Len(Head(fs).blocks) THEN Len(Head(fs).blocks[ch]) ELSE 0)
         + Delivered(Tail(fs), ch)

\* the sum of the block sizes of the frames fs
RECURSIVE BlockSizes(_)
BlockSizes(fs) ==
    IF fs = <<>> THEN 0 ELSE Head(fs).header.block_size + BlockSizes(Tail(fs))

\* C15: when decode_frames returns Ok, the samples delivered on each
\* channel of the stream are as many as the block sizes of the decoded
\* frames add up to, and no more than StreamInfo.total_samples.
C15_DeliveredTotals ==
    result = "Ok" =>
        /\ \A ch \in 1..stream_info.number_of_channels :
               Delivered(sunk, ch) = BlockSizes(sunk)
        /\ BlockSizes(sunk) <= stream_info.total_samples

----------------------------------------------------------------------------
(* Properties of sign_extend                                               *)

\* C16: for n in 1..64 and an n-bit u, sign_extend(u, n) is the i64 with the
\* low n bits of u and every higher bit equal to bit n-1 of u, which is the
\* number u - ((u >> (n-1)) << n); the number is compared as such for the
\* widths up to 30, where it is the i32 of the low 32 bits.
C16_SignExtend ==
    pc = "sign_done" =>
        /\ last.e = "Ok"
        /\ \A i \in 1..64 :
              last.v[i] = IF i > 64 - hist.n THEN hist.u[i - (64 - hist.n)]
                          ELSE hist.u[1]
        /\ hist.n <= 30 =>
              as_i32(last.v) = BitsToNat(hist.u)
                  - (BitsToNat(hist.u) \div Pow2(hist.n - 1)) * Pow2(hist.n)

\* a value with its top bit set has been extended at a width that is not a
\* multiple of 8
C16_Witness ==
    /\ pc = "sign_done"
    /\ hist.n = 13
    /\ hist.u[1] = 1
    /\ as_i32(last.v) = -4096

----------------------------------------------------------------------------
(* Properties of the bit reader's state                                    *)

\* C17: after successful read_value and read_bitvec calls that served T
\* bits, ceil(T/8) bytes have been fetched, queue_count = (8 - T mod 8) mod 8
\* and the queue holds the bits of the last fetched byte not yet served;
\* a call of n <= queue_count bits fetches nothing and any other call
\* fetches ceil((n - queue_count)/8) bytes.
C17_ReaderState ==
    /\ []((pc = "bits" /\ result = "Running") =>
            /\ reader.pos = (Len(out) + 7) \div 8
            /\ reader.queue_count = (8 - (Len(out) % 8)) % 8
            /\ reader.queue_count \in 0..7
            /\ reader.queue = Zeros(64 - reader.queue_count)
                   \o SubSeq(SrcBits(reader.source), Len(out) + 1, 8 * reader.pos))
    /\ [][(pc = "bits" /\ result' = "Running") =>
            /\ Len(out') = Len(out) + last'.n
            /\ reader'.pos - reader.pos =
                  IF last'.n <= reader.queue_count THEN 0
                  ELSE (last'.n - reader.queue_count + 7) \div 8]_vars

\* a read_bitvec of 12 bits took 7 bits from the queue, fetched one byte
\* and left 3 bits queued
C17_Witness ==
    /\ pc = "bits"
    /\ result = "Running"
    /\ last.e = "Bitvec"
    /\ last.n = 12
    /\ reader.queue_count = 3
    /\ Len(out) > 12

----------------------------------------------------------------------------
(* Properties of the proxy's accumulators                                  *)

\* C18: a read_exact of the proxy that fails leaves the CRC-8 and the
\* CRC-16 accumulator as they were, and a read_exact while a region is
\* closed leaves that region's accumulator as it was.
C18_FoldOnlyDelivered ==
    [][(pc = "proxy" /\ last'.e \in {"Ok", "Io"}) =>
          /\ last'.e = "Io" =>
                /\ reader'.crc8 = reader.crc8
                /\ reader'.crc16 = reader.crc16
          /\ ~reader.computing_crc8 => reader'.crc8 = reader.crc8
          /\ ~reader.computing_crc16 => reader'.crc16 = reader.crc16]_vars

----------------------------------------------------------------------------
(* Properties of decode_residuals                                          *)

\* C19: for every block size, predictor order and partition order that
\* decode_residuals processes, the partitions hold block_size -
\* predictor_order samples in all, so that the buffer holds block_size
\* samples after the warm-up samples and the residuals.
C19_PartitionCounts ==
    pc = "residuals_done" =>
        /\ result = "Ok"
        /\ Len(blocks[1]) = hist.block_size

----------------------------------------------------------------------------
(* Properties of the coded number of the frame header                      *)

\* the number of one bits of the byte b before its first zero bit
LeadingOnes(b) ==
    IF b = 255 THEN 8
    ELSE (CHOOSE i \in 1..8 : NatToBits(b, 8)[i] = 0
                                 /\ \A j \in 1..(i - 1) : NatToBits(b, 8)[j] = 1) - 1

\* the continuation bytes of a number whose first byte is b
Continuation(b) ==
    IF LeadingOnes(b) = 0 THEN 0 ELSE LeadingOnes(b) - 1

\* C20: after the first byte b of the coded number exactly
\* max(0, leading_ones(b) - 1) continuation bytes are read, none when
\* b < 0xC0 and 7 when b = 0xFF, and the variable block size and sample
\* rate fields are read from the bytes right after them.
C20_NumberSkipped ==
    pc = "number_done" =>
        LET c == Continuation(hist.b) IN
        /\ out[1].e = "Ok"
        /\ out[1].skipped = c
        /\ c <= 7
        /\ hist.b < 192 => c = 0
        /\ hist.b = 255 => c = 7
        /\ hist.block_size_bits = 6 =>
              out[1].variable_block_size = [some |-> TRUE, v |-> NumberTail[c + 1] + 1]
        /\ hist.block_size_bits = 7 =>
              out[1].variable_block_size =
                  [some |-> TRUE, v |-> 256 * NumberTail[c + 1] + NumberTail[c + 2] + 1]
        /\ hist.block_size_bits = 0 => ~out[1].variable_block_size.some
        /\ reader.pos = 1 + c
              + (IF hist.block_size_bits = 6 THEN 1
                 ELSE IF hist.block_size_bits = 7 THEN 2 ELSE 0)
              + (IF hist.sample_rate_bits = 12 THEN 1
                 ELSE IF hist.sample_rate_bits = 13 THEN 2 ELSE 0)

\* a first byte with five leading ones was followed by four continuation
\* bytes and a block size field of two bytes
C20_Witness ==
    /\ pc = "number_done"
    /\ hist.b = 250
    /\ hist.block_size_bits = 7
    /\ out[1].skipped = 4
    /\ out[1].variable_block_size.v = 256 * 81 + 97 + 1

----------------------------------------------------------------------------
(* Properties of the Bitvec                                                *)

\* C21: after read_bitvec calls into one empty Bitvec from a reader that
\* starts byte-aligned, the Bitvec holds the bits read, in order; complete
\* bytes are in one Bytes block, a Bits block holds 1 to 7 bits and is the
\* last block, and when the bits read are a multiple of 8 the Bitvec is one
\* Bytes block of the source bytes consumed (no block when no bit was read).
C21_NormalForm ==
    (pc = "bitvec" /\ result = "Running") =>
        /\ BitvecBits(blocks) = SubSeq(SrcBits(reader.source), 1, chan)
        /\ Len(blocks) <= 2
        /\ \A i \in 1..Len(blocks) :
              IF blocks[i].kind = "Bytes"
              THEN i = 1 /\ Len(blocks[i].bytes) = chan \div 8
              ELSE /\ i = Len(blocks)
                   /\ blocks[i].q \in 1..7
                   /\ blocks[i].q = chan % 8
                   /\ blocks[i].w < Pow2(blocks[i].q)
        /\ chan >= 8 => blocks[1].kind = "Bytes"
        /\ chan % 8 # 0 => blocks[Len(blocks)].kind = "Bits"
        /\ (chan % 8 = 0 /\ chan > 0) =>
              blocks = <<Bytes(SubSeq(reader.source, 1, reader.pos))>>
        /\ chan = 0 => blocks = <<>>

\* a read of 3 bits completed the second byte of a Bitvec that held 13 bits
C21_Witness ==
    /\ pc = "bitvec"
    /\ result = "Running"
    /\ last.n = 3
    /\ chan = 16
    /\ blocks = <<Bytes(SubSeq(reader.source, 1, 2))>>


\* C22: Stream::new followed by decode_frames terminates, and it ends with
\* Ok or with an error value; every turn of the frame loop that hands a
\* frame to the sink has consumed at least one byte, and every turn of the
\* metadata walk that continues has consumed at least one byte.
C22_Terminates ==
    /\ <>(pc \in {"failed", "done"})
    /\ [](pc \in {"failed", "done"} => (result # "Running" /\ ~IsPanic(result)))
    /\ [](pc = "sink" => reader.pos > hist.start)
    /\ [][(pc = "metadata" /\ pc' = "metadata") => reader'.pos > reader.pos]_vars

====
